---- MODULE Spec2Model ----
(***************************************************************************)
(* Model of the CSV search / replace engine of csv_analyze_payscale:       *)
(* the field matcher and row predicate evaluator, the slug normalizer and  *)
(* the derived slug_url rule, and the batch orchestrators of the process,  *)
(* replace and fix-slug-urls routes with their event streams.              *)
(*                                                                         *)
(* A JavaScript string is modelled as a sequence of characters, each       *)
(* character a one-character TLA+ string ("a", "-", " "); a character      *)
(* outside ASCII is named by its code point ("U00E3" is a-tilde, "U0303"   *)
(* the combining tilde).  The empty string is << >>.                       *)
(***************************************************************************)
EXTENDS Integers, Sequences, FiniteSets, TLC

VARIABLES
  call,        \* a pure function applied to bounded inputs: arguments and result
  req,         \* the JSON body of the request a route handler is serving
  pc,          \* the handler's position
  fileList,    \* the files the loop iterates: files, or the entries of filesMap
  opList,      \* the replace operations of the replace route
  idx,         \* the 1-based position in the file loop
  cur,         \* the locals of the current file: rows, headers, i, counters
  stats,       \* ProcessStats
  events,      \* the events sent on the response stream, in order
  store,       \* the Filebrowser server: path -> stored file
  localFiles,  \* the local public directory: file name -> stored file
  io,          \* the uploadFile / fs.writeFile calls made, in order
  closeCalls   \* the number of controller.close() calls

routeVars ==
  <<req, pc, fileList, opList, idx, cur, stats, events, store, localFiles, io,
    closeCalls>>

vars ==
  <<call, req, pc, fileList, opList, idx, cur, stats, events, store, localFiles,
    io, closeCalls>>

(***************************************************************************)
(* String primitives of the JavaScript runtime used by the routes.         *)
(***************************************************************************)
UpperLetters == <<"A","B","C","D","E","F","G","H","I","J","K","L","M",
                  "N","O","P","Q","R","S","T","U","V","W","X","Y","Z">>
LowerLetters == <<"a","b","c","d","e","f","g","h","i","j","k","l","m",
                  "n","o","p","q","r","s","t","u","v","w","x","y","z">>
Digits == {"0","1","2","3","4","5","6","7","8","9"}

Range(s) == {s[i] : i \in 1..Len(s)}

\* String.prototype.toLowerCase on one character
LowerChar(c) ==
  IF c \in Range(UpperLetters)
  THEN LowerLetters[CHOOSE i \in 1..Len(UpperLetters) : UpperLetters[i] = c]
  ELSE c

toLowerCase(s) == [i \in 1..Len(s) |-> LowerChar(s[i])]

\* the characters matched by \s
IsSpace(c) == c \in {" ", "TAB"}

\* the characters matched by \w
IsWordChar(c) ==
  c \in Range(UpperLetters) \cup Range(LowerLetters) \cup Digits \cup {"_"}

RECURSIVE trimStart(_)
trimStart(s) ==
  IF s # << >> /\ IsSpace(Head(s)) THEN trimStart(Tail(s)) ELSE s

RECURSIVE trimEnd(_)
trimEnd(s) ==
  IF s # << >> /\ IsSpace(s[Len(s)]) THEN trimEnd(SubSeq(s, 1, Len(s) - 1)) ELSE s

\* String.prototype.trim
trim(s) == trimEnd(trimStart(s))

startsWith(hay, needle) ==
  Len(needle) <= Len(hay) /\ SubSeq(hay, 1, Len(needle)) = needle

endsWith(hay, needle) ==
  Len(needle) <= Len(hay)
  /\ SubSeq(hay, Len(hay) - Len(needle) + 1, Len(hay)) = needle

\* the 0-based positions at which needle occurs in hay
Occurrences(hay, needle) ==
  {i \in 0..(Len(hay) - Len(needle)) : SubSeq(hay, i + 1, i + Len(needle)) = needle}

includes(hay, needle) == Occurrences(hay, needle) # {}

\* String.prototype.indexOf: the first occurrence, 0-based, or -1
indexOf(hay, needle) ==
  IF Occurrences(hay, needle) = {} THEN -1
  ELSE CHOOSE i \in Occurrences(hay, needle) :
         \A j \in Occurrences(hay, needle) : i <= j

\* String.prototype.substring(0, n)
substring0(s, n) == SubSeq(s, 1, n)

(***************************************************************************)
(* new RegExp(pattern, flags) and RegExp.prototype.test, for the patterns  *)
(* made of literal characters, ".", "^", "$" and "(".  No ")" is in the    *)
(* pattern alphabet, so a pattern holding "(" is an unterminated group     *)
(* and the constructor throws a SyntaxError.                               *)
(***************************************************************************)
RegexCompiles(pattern) == \A i \in 1..Len(pattern) : pattern[i] # "("

\* \b at the 1-based position pos of s (between s[pos-1] and s[pos])
WordBoundary(s, pos) ==
  LET before == pos > 1 /\ pos - 1 <= Len(s) /\ IsWordChar(s[pos - 1])
      after  == pos >= 1 /\ pos <= Len(s) /\ IsWordChar(s[pos])
  IN  before # after

CharEq(a, b, ignoreCase) ==
  IF ignoreCase THEN LowerChar(a) = LowerChar(b) ELSE a = b

\* the pattern from its k-th token on matches s from position i on;
\* literal: every token is a literal character (an escaped search term);
\* wb: the match must end on a word boundary
RECURSIVE MatchFrom(_, _, _, _, _, _, _)
MatchFrom(pattern, k, s, i, ignoreCase, literal, wb) ==
  IF k > Len(pattern) THEN (~wb \/ WordBoundary(s, i))
  ELSE IF ~literal /\ pattern[k] = "^"
    THEN i = 1 /\ MatchFrom(pattern, k + 1, s, i, ignoreCase, literal, wb)
  ELSE IF ~literal /\ pattern[k] = "$"
    THEN i = Len(s) + 1 /\ MatchFrom(pattern, k + 1, s, i, ignoreCase, literal, wb)
  ELSE IF ~literal /\ pattern[k] = "."
    THEN i <= Len(s) /\ MatchFrom(pattern, k + 1, s, i + 1, ignoreCase, literal, wb)
  ELSE i <= Len(s) /\ CharEq(s[i], pattern[k], ignoreCase)
       /\ MatchFrom(pattern, k + 1, s, i + 1, ignoreCase, literal, wb)

\* re.test(s) with lastIndex = 0: a match starting anywhere
RegexTest(pattern, s, ignoreCase, literal, wb) ==
  \E i \in 1..(Len(s) + 1) :
    /\ (~wb \/ WordBoundary(s, i))
    /\ MatchFrom(pattern, 1, s, i, ignoreCase, literal, wb)

(***************************************************************************)
(* Field Matcher and Row Predicate Evaluator (process route).              *)
(***************************************************************************)
THROWS == [threw |-> TRUE, matches |-> FALSE, matchedFields |-> << >>]

Returns(matches, matchedFields) ==
  [threw |-> FALSE, matches |-> matches, matchedFields |-> matchedFields]

\* buildFieldMatcher throws when the regex of the condition does not compile
MatcherThrows(cond) ==
  cond.mode = "regex" /\ ~RegexCompiles(cond.value)

\* a matcher that lowercases the condition value but not the cell value
buildFieldMatcherNeedleOnly(cond, globalCaseSensitive, raw) ==
  LET caseSensitive == globalCaseSensitive
      needle == IF caseSensitive THEN cond.value ELSE toLowerCase(cond.value)
      hay    == raw
  IN  CASE cond.mode = "regex" ->
             RegexTest(cond.value, raw, ~caseSensitive, FALSE, FALSE)
        [] cond.mode = "equals"     -> hay = needle
        [] cond.mode = "startsWith" -> startsWith(hay, needle)
        [] cond.mode = "endsWith"   -> endsWith(hay, needle)
        [] OTHER                    -> includes(hay, needle)

\* buildFieldMatcher(cond, globalCaseSensitive)(raw)
buildFieldMatcher(cond, globalCaseSensitive, raw) ==
  LET caseSensitive == globalCaseSensitive
      needle == IF caseSensitive THEN cond.value ELSE toLowerCase(cond.value)
      hay    == IF caseSensitive THEN raw ELSE toLowerCase(raw)
  IN  CASE cond.mode = "regex" ->
             RegexTest(cond.value, raw, ~caseSensitive, FALSE, FALSE)
        [] cond.mode = "equals"     -> hay = needle
        [] cond.mode = "startsWith" -> startsWith(hay, needle)
        [] cond.mode = "endsWith"   -> endsWith(hay, needle)
        [] OTHER                    -> includes(hay, needle)

\* a filter that forgets the trim: a whitespace-only value stays active
IsActiveCondNoTrim(c) == c.value # << >>

\* (c) => c.value && c.value.trim() !== ''
IsActiveCond(c) == c.value # << >> /\ trim(c.value) # << >>

activeCondsOf(conditions) == SelectSeq(conditions, IsActiveCond)

\* row[field] ?? ''
Cell(row, field) == IF field \in DOMAIN row THEN row[field] ELSE << >>

\* an AND loop that skips a condition on a missing field, as the OR loop does
RECURSIVE AndLoopSkipsMissing(_, _, _, _, _, _)
AndLoopSkipsMissing(conds, k, row, headers, caseSensitive, acc) ==
  IF k > Len(conds) THEN Returns(TRUE, acc)
  ELSE IF conds[k].field \notin Range(headers)
    THEN AndLoopSkipsMissing(conds, k + 1, row, headers, caseSensitive, acc)
  ELSE IF ~buildFieldMatcher(conds[k], caseSensitive, Cell(row, conds[k].field))
    THEN Returns(FALSE, << >>)
  ELSE AndLoopSkipsMissing(conds, k + 1, row, headers, caseSensitive,
                           Append(acc, conds[k].field))

\* the AND loop from the k-th active condition on, matchedFields so far in acc
RECURSIVE AndLoop(_, _, _, _, _, _)
AndLoop(conds, k, row, headers, caseSensitive, acc) ==
  IF k > Len(conds) THEN Returns(TRUE, acc)
  ELSE IF conds[k].field \notin Range(headers)
    THEN Returns(FALSE, << >>)
  ELSE IF ~buildFieldMatcher(conds[k], caseSensitive, Cell(row, conds[k].field))
    THEN Returns(FALSE, << >>)
  ELSE AndLoop(conds, k + 1, row, headers, caseSensitive,
               Append(acc, conds[k].field))

\* an OR loop that gives up on a condition whose field is missing
RECURSIVE OrLoopFailsOnMissing(_, _, _, _, _, _)
OrLoopFailsOnMissing(conds, k, row, headers, caseSensitive, acc) ==
  IF k > Len(conds) THEN acc
  ELSE IF conds[k].field \notin Range(headers) THEN << >>
  ELSE IF buildFieldMatcher(conds[k], caseSensitive, Cell(row, conds[k].field))
    THEN OrLoopFailsOnMissing(conds, k + 1, row, headers, caseSensitive,
                              Append(acc, conds[k].field))
  ELSE OrLoopFailsOnMissing(conds, k + 1, row, headers, caseSensitive, acc)

\* the OR loop: the fields of the conditions that exist and are satisfied
RECURSIVE OrLoop(_, _, _, _, _, _)
OrLoop(conds, k, row, headers, caseSensitive, acc) ==
  IF k > Len(conds) THEN acc
  ELSE IF conds[k].field \notin Range(headers)
    THEN OrLoop(conds, k + 1, row, headers, caseSensitive, acc)
  ELSE IF buildFieldMatcher(conds[k], caseSensitive, Cell(row, conds[k].field))
    THEN OrLoop(conds, k + 1, row, headers, caseSensitive,
                Append(acc, conds[k].field))
  ELSE OrLoop(conds, k + 1, row, headers, caseSensitive, acc)

\* rowMatchesAdvanced(row, headers, advanced); advanced.logic "" is unset
rowMatchesAdvanced(row, headers, advanced) ==
  LET logic == IF advanced.logic = "" THEN "AND" ELSE advanced.logic
      caseSensitive == advanced.caseSensitive
      activeConds == activeCondsOf(advanced.conditions)
  IN  IF activeConds = << >>
        THEN Returns(TRUE, << >>)
      ELSE IF \E k \in 1..Len(activeConds) : MatcherThrows(activeConds[k])
        THEN THROWS
      ELSE IF logic = "AND"
        THEN AndLoop(activeConds, 1, row, headers, caseSensitive, << >>)
      ELSE LET matchedFields ==
                 OrLoop(activeConds, 1, row, headers, caseSensitive, << >>)
           IN  Returns(matchedFields # << >>, matchedFields)

(***************************************************************************)
(* Slug Normalizer (lib/utils normalizeToKebabCase).                       *)
(***************************************************************************)
\* the combining marks of the range U+0300..U+036F that the inputs can hold
CombiningMarks == {"U0301", "U0303", "U0308"}

\* canonical decomposition (NFD) of one character
Decompose(c) ==
  CASE c = "U00E3" -> <<"a", "U0303">>
    [] c = "U00C3" -> <<"A", "U0303">>
    [] c = "U00E9" -> <<"e", "U0301">>
    [] c = "U00FC" -> <<"u", "U0308">>
    [] OTHER       -> <<c>>

RECURSIVE normalizeNFD(_)
normalizeNFD(s) ==
  IF s = << >> THEN << >> ELSE Decompose(Head(s)) \o normalizeNFD(Tail(s))

NotCombiningMark(c) == c \notin CombiningMarks

\* .replace(/[\u0300-\u036f]/g, '')
stripDiacritics(s) == SelectSeq(s, NotCombiningMark)

\* .replace(/\s+/g, '-')
RECURSIVE spacesToHyphen(_)
spacesToHyphen(s) ==
  IF s = << >> THEN << >>
  ELSE IF IsSpace(Head(s)) THEN <<"-">> \o spacesToHyphen(trimStart(s))
  ELSE <<Head(s)>> \o spacesToHyphen(Tail(s))

IsWordOrHyphen(c) == IsWordChar(c) \/ c = "-"

\* .replace(/[^\w-]/g, '')
stripSpecial(s) == SelectSeq(s, IsWordOrHyphen)

\* .replace(/-+/g, '-')
RECURSIVE collapseHyphens(_)
collapseHyphens(s) ==
  IF s = << >> THEN << >>
  ELSE IF Head(s) = "-" /\ Len(s) > 1 /\ s[2] = "-" THEN collapseHyphens(Tail(s))
  ELSE <<Head(s)>> \o collapseHyphens(Tail(s))

RECURSIVE trimHyphensStart(_)
trimHyphensStart(s) ==
  IF s # << >> /\ Head(s) = "-" THEN trimHyphensStart(Tail(s)) ELSE s

RECURSIVE trimHyphensEnd(_)
trimHyphensEnd(s) ==
  IF s # << >> /\ s[Len(s)] = "-"
  THEN trimHyphensEnd(SubSeq(s, 1, Len(s) - 1)) ELSE s

\* .replace(/^-+|-+$/g, '')
trimHyphens(s) == trimHyphensEnd(trimHyphensStart(s))

\* the normalizer with the special characters stripped after the hyphens
\* were collapsed and trimmed
normalizeStripsLast(input) ==
  IF input = << >> THEN << >>
  ELSE CHOOSE out \in
         {stripSpecial(s6) : s6 \in {trimHyphens(s5) : s5 \in {collapseHyphens(s4) : s4 \in
           {spacesToHyphen(s3) : s3 \in {toLowerCase(s2) : s2 \in
             {stripDiacritics(s1) : s1 \in {normalizeNFD(input)}}}}}}} : TRUE

\* the method chain, each link applied to the value of the link before it
normalizeToKebabCase(input) ==
  IF input = << >> THEN << >>
  ELSE CHOOSE out \in
         {trimHyphens(s6) : s6 \in
           {collapseHyphens(s5) : s5 \in
             {stripSpecial(s4) : s4 \in
               {spacesToHyphen(s3) : s3 \in
                 {toLowerCase(s2) : s2 \in
                   {stripDiacritics(s1) : s1 \in {normalizeNFD(input)}}}}}}} : TRUE

(***************************************************************************)
(* Replacement Engine: the row step of the replace route (multi-field      *)
(* overwrite with the derived slug_url rule) and of the fix-slug-urls      *)
(* route.  A row is a function from its header names to strings.           *)
(***************************************************************************)
SALARY == <<"-", "s", "a", "l", "a", "r", "y">>

SalaryLen == 7

MatchEvent(f, old, new) == [field |-> f, oldValue |-> old, newValue |-> new]

NoLocationReplacement == [set |-> FALSE, newValue |-> << >>]

\* the loop over the replace operations of one selected row, from the k-th on;
\* r holds the row, its MatchEvents, the replacements counted and the last
\* location replacement
RECURSIVE operationsLoop(_, _, _, _)
operationsLoop(operations, k, headers, r) ==
  IF k > Len(operations) THEN r
  ELSE IF operations[k].field \notin Range(headers)
    THEN operationsLoop(operations, k + 1, headers, r)
  ELSE LET op == operations[k]
           oldValue == Cell(r.row, op.field)
           newValue == op.value
       IN  IF oldValue # newValue
             THEN operationsLoop(operations, k + 1, headers,
                    [row |-> [r.row EXCEPT ![op.field] = newValue],
                     events |-> Append(r.events,
                                       MatchEvent(op.field, oldValue, newValue)),
                     count |-> r.count + 1,
                     locationReplacement |->
                       IF op.field = "location"
                         THEN [set |-> TRUE, newValue |-> newValue]
                         ELSE r.locationReplacement])
             ELSE operationsLoop(operations, k + 1, headers, r)

\* a recomputation that appends to the whole current slug_url (double suffix)
recomputedSlugUrlAppends(currentSlugUrl, newLocation) ==
  LET normalizedNewLocation == normalizeToKebabCase(newLocation)
  IN  IF normalizedNewLocation # << >>
        THEN currentSlugUrl \o <<"-">> \o normalizedNewLocation
        ELSE currentSlugUrl

\* the slug_url recomputed from the trimmed current slug_url and the new location
recomputedSlugUrl(currentSlugUrl, newLocation) ==
  LET salaryIndex == indexOf(currentSlugUrl, SALARY)
      baseSlug == substring0(currentSlugUrl, salaryIndex + SalaryLen)
      normalizedNewLocation == normalizeToKebabCase(newLocation)
  IN  IF normalizedNewLocation # << >>
        THEN baseSlug \o <<"-">> \o normalizedNewLocation
        ELSE baseSlug

RowResult(row, evs, count) == [row |-> row, events |-> evs, count |-> count]

\* a slug_url update that rewrites the field without reporting or counting it
slugUrlUpdateSilent(r, headers) ==
  IF r.locationReplacement.set /\ "slug_url" \in Range(headers)
    THEN LET currentSlugUrl == trim(Cell(r.row, "slug_url"))
             newSlugUrl == recomputedSlugUrl(currentSlugUrl,
                                             r.locationReplacement.newValue)
         IN  IF includes(currentSlugUrl, SALARY) /\ newSlugUrl # currentSlugUrl
               THEN RowResult([r.row EXCEPT !["slug_url"] = newSlugUrl],
                              r.events, r.count)
               ELSE RowResult(r.row, r.events, r.count)
    ELSE RowResult(r.row, r.events, r.count)

\* "Update slug_url if location was replaced"
slugUrlUpdate(r, headers) ==
  IF r.locationReplacement.set /\ "slug_url" \in Range(headers)
    THEN LET currentSlugUrl == trim(Cell(r.row, "slug_url"))
             newSlugUrl == recomputedSlugUrl(currentSlugUrl,
                                             r.locationReplacement.newValue)
         IN  IF includes(currentSlugUrl, SALARY) /\ newSlugUrl # currentSlugUrl
               THEN RowResult([r.row EXCEPT !["slug_url"] = newSlugUrl],
                              Append(r.events,
                                MatchEvent("slug_url", currentSlugUrl, newSlugUrl)),
                              r.count + 1)
               ELSE RowResult(r.row, r.events, r.count)
    ELSE RowResult(r.row, r.events, r.count)

\* a row step that applies the operations to every row of the file
replaceRowIgnoresSelection(row, headers, operations, selected) ==
  slugUrlUpdate(
    operationsLoop(operations, 1, headers,
                   [row |-> row, events |-> << >>, count |-> 0,
                    locationReplacement |-> NoLocationReplacement]),
    headers)

\* the body of the row loop of the replace route for one row: the new row,
\* its MatchEvents and the replacements counted
replaceRow(row, headers, operations, selected) ==
  IF selected
    THEN slugUrlUpdate(
           operationsLoop(operations, 1, headers,
                          [row |-> row, events |-> << >>, count |-> 0,
                           locationReplacement |-> NoLocationReplacement]),
           headers)
    ELSE RowResult(row, << >>, 0)

\* a fix-slug row step without the "already appended" check
fixSlugRowNoGuard(row, selected) ==
  LET currentSlugUrl == trim(Cell(row, "slug_url"))
      normalizedLocation == normalizeToKebabCase(trim(Cell(row, "location")))
      newSlugUrl == currentSlugUrl \o <<"-">> \o normalizedLocation
  IN  IF selected /\ endsWith(currentSlugUrl, SALARY) /\ normalizedLocation # << >>
        THEN RowResult([row EXCEPT !["slug_url"] = newSlugUrl],
                       <<MatchEvent("slug_url", currentSlugUrl, newSlugUrl)>>, 1)
        ELSE RowResult(row, << >>, 0)

\* the body of the row loop of the fix-slug-urls route for one row
fixSlugRow(row, selected) ==
  LET currentSlugUrl == trim(Cell(row, "slug_url"))
      location == trim(Cell(row, "location"))
      normalizedLocation == normalizeToKebabCase(location)
      expectedSuffix == SALARY \o <<"-">> \o normalizedLocation
      newSlugUrl == currentSlugUrl \o <<"-">> \o normalizedLocation
  IN  IF /\ selected
         /\ endsWith(currentSlugUrl, SALARY)
         /\ normalizedLocation # << >>
         /\ ~endsWith(currentSlugUrl, expectedSuffix)
        THEN RowResult([row EXCEPT !["slug_url"] = newSlugUrl],
                       <<MatchEvent("slug_url", currentSlugUrl, newSlugUrl)>>, 1)
        ELSE RowResult(row, << >>, 0)

\* "Only save if replacements were actually made" / "if fixes were actually made"
persistsOutput(fileReplacements) == fileReplacements > 0

(***************************************************************************)
(* Row steps of the process route: simple mode and advanced mode.          *)
(***************************************************************************)
\* a request field that is absent from the JSON body
UNDEFINED == <<"undefined">>

\* a string value is truthy
IsSet(v) == v # UNDEFINED /\ v # << >>

\* a field name is truthy; an absent field name is ""
IsSetField(f) == f # ""

\* searchFields.map((field) => (row[field] ?? '').toString()).join(' ')
RECURSIVE rowText(_, _, _)
rowText(row, headers, k) ==
  IF k > Len(headers) THEN << >>
  ELSE IF k = Len(headers) THEN Cell(row, headers[k])
  ELSE Cell(row, headers[k]) \o <<" ">> \o rowText(row, headers, k + 1)

\* a RegExp constructor that accepts every pattern
searchRegexNeverThrows(body) == FALSE

\* new RegExp(searchPattern, searchFlags) throws
searchRegexThrows(body) == body.useRegex /\ ~RegexCompiles(body.searchTerm)

\* searchRegex.lastIndex = 0; searchRegex.test(text)
searchRegexTest(body, text) ==
  RegexTest(body.searchTerm, text, ~body.caseSensitive, ~body.useRegex, body.wholeWord)

\* the fields the simple mode replaces in
replaceFieldsOf(body, headers) ==
  IF "All" \in Range(body.selectedFields) \/ body.selectedFields = << >>
    THEN headers
    ELSE SelectSeq(body.selectedFields, LAMBDA f : f \in Range(headers))

\* SEARCH-ONLY MODE: one MatchEvent per field whose own value matches
RECURSIVE detectFields(_, _, _, _)
detectFields(body, row, headers, k) ==
  IF k > Len(headers) THEN << >>
  ELSE LET value == Cell(row, headers[k])
       IN  (IF searchRegexTest(body, value)
              THEN <<MatchEvent(headers[k], value, value)>> ELSE << >>)
           \o detectFields(body, row, headers, k + 1)

\* REPLACE MODE: the target fields of a matched row are overwritten
RECURSIVE overwriteFields(_, _, _, _)
overwriteFields(replaceTerm, fields, k, r) ==
  IF k > Len(fields) THEN r
  ELSE LET oldValue == Cell(r.row, fields[k])
           newValue == replaceTerm
       IN  IF newValue # oldValue
             THEN overwriteFields(replaceTerm, fields, k + 1,
                    RowResult([r.row EXCEPT ![fields[k]] = newValue],
                              Append(r.events,
                                     MatchEvent(fields[k], oldValue, newValue)),
                              r.count + 1))
             ELSE overwriteFields(replaceTerm, fields, k + 1, r)

\* an iteration that counts every MatchEvent as a replacement
StepCountsEvents(r, matched, keep) ==
  [row |-> r.row, events |-> r.events, count |-> Len(r.events),
   matched |-> matched, keep |-> keep, threw |-> FALSE]

\* what one iteration of a row loop yields: the row, its MatchEvents, the
\* replacements counted, whether the row matched, whether it is pushed to
\* processedRows, whether the iteration threw
Step(r, matched, keep) ==
  [row |-> r.row, events |-> r.events, count |-> r.count,
   matched |-> matched, keep |-> keep, threw |-> FALSE]

StepThrows(row) ==
  [row |-> row, events |-> << >>, count |-> 0,
   matched |-> FALSE, keep |-> FALSE, threw |-> TRUE]

\* a row loop of the simple mode that decides the match field by field
simpleRowStepFieldLevel(body, row, headers) ==
  LET rowMatched == detectFields(body, row, headers, 1) # << >>
      isReplaceMode == IsSet(body.replaceTerm)
  IN  IF ~rowMatched
        THEN Step(RowResult(row, << >>, 0), FALSE, ~body.showOnlyMatches)
      ELSE IF ~isReplaceMode
        THEN Step(RowResult(row, detectFields(body, row, headers, 1), 0), TRUE, TRUE)
      ELSE Step(overwriteFields(body.replaceTerm, replaceFieldsOf(body, headers), 1,
                                RowResult(row, << >>, 0)),
                TRUE, TRUE)

\* one iteration of the simple-mode row loop
simpleRowStep(body, row, headers) ==
  LET rowMatched == searchRegexTest(body, rowText(row, headers, 1))
      isReplaceMode == IsSet(body.replaceTerm)
  IN  IF ~rowMatched
        THEN Step(RowResult(row, << >>, 0), FALSE, ~body.showOnlyMatches)
      ELSE IF ~isReplaceMode
        THEN Step(RowResult(row, detectFields(body, row, headers, 1), 0), TRUE, TRUE)
      ELSE Step(overwriteFields(body.replaceTerm, replaceFieldsOf(body, headers), 1,
                                RowResult(row, << >>, 0)),
                TRUE, TRUE)

\* const isReplaceMode = !!(replaceTargetField && replaceValue !== undefined)
advancedIsReplaceMode(body) ==
  IsSetField(body.replaceTargetField) /\ body.replaceValue # UNDEFINED

RECURSIVE matchedFieldEvents(_, _, _)
matchedFieldEvents(row, matchedFields, k) ==
  IF k > Len(matchedFields) THEN << >>
  ELSE <<MatchEvent(matchedFields[k], Cell(row, matchedFields[k]),
                    Cell(row, matchedFields[k]))>>
       \o matchedFieldEvents(row, matchedFields, k + 1)

\* one iteration of the row loop of processFilesWithAdvancedSearch
advancedRowStep(body, row, headers) ==
  LET m == rowMatchesAdvanced(row, headers, body.advanced)
      target == body.replaceTargetField
      r == IF advancedIsReplaceMode(body) /\ target \in Range(headers)
             THEN IF body.replaceValue # Cell(row, target)
                    THEN RowResult([row EXCEPT ![target] = body.replaceValue],
                                   <<MatchEvent(target, Cell(row, target),
                                                body.replaceValue)>>, 1)
                    ELSE RowResult(row, << >>, 0)
             ELSE RowResult(row, matchedFieldEvents(row, m.matchedFields, 1), 0)
  IN  IF m.threw THEN StepThrows(row)
      ELSE IF ~m.matches
        THEN Step(RowResult(row, << >>, 0), FALSE, ~body.showOnlyMatches)
      ELSE Step(r, TRUE, ~body.showOnlyMatches \/ r.events # << >>)

(***************************************************************************)
(* CSV Codec (Papa.parse / Papa.unparse) and the output path.              *)
(* A stored file is its parse result: whether the parser reports errors,   *)
(* the header line and the rows.                                           *)
(***************************************************************************)
FileContent(errors, headers, rows) ==
  [errors |-> errors, headers |-> headers, rows |-> rows]

\* const headers = Object.keys(rows[0] || {})
headersOf(content) == IF content.rows = << >> THEN << >> ELSE content.headers

\* Papa.unparse(processedRows, { header: true }): the columns are the keys
\* of the first row
unparse(processedRows, headers) ==
  IF processedRows = << >> THEN FileContent(FALSE, << >>, << >>)
  ELSE FileContent(FALSE, headers, processedRows)

s_slash == <<"/">>

s_dot_csv == <<".", "c", "s", "v">>

s_file_csv == <<"f", "i", "l", "e", ".", "c", "s", "v">>

s_replaced_csv == <<"_", "r", "e", "p", "l", "a", "c", "e", "d", ".", "c", "s", "v">>

s_fixed_csv == <<"_", "f", "i", "x", "e", "d", ".", "c", "s", "v">>

\* the position of the last "/" of path, 0 when there is none
lastSlash(path) ==
  IF \A i \in 1..Len(path) : path[i] # "/" THEN 0
  ELSE CHOOSE i \in 1..Len(path) :
         path[i] = "/" /\ \A j \in (i + 1)..Len(path) : path[j] # "/"

\* pathParts.pop() || 'file.csv'
fileNameOf(path) ==
  IF lastSlash(path) = Len(path) THEN s_file_csv
  ELSE SubSeq(path, lastSlash(path) + 1, Len(path))

\* pathParts.join('/') || '/'
directoryOf(path) ==
  IF lastSlash(path) <= 1 THEN s_slash ELSE SubSeq(path, 1, lastSlash(path) - 1)

\* fileName.replace(/\.csv$/i, '')
nameWithoutExt(fileName) ==
  IF endsWith(toLowerCase(fileName), s_dot_csv)
    THEN SubSeq(fileName, 1, Len(fileName) - Len(s_dot_csv))
    ELSE fileName

\* .replace(/\/+/g, '/')
RECURSIVE collapseSlashes(_)
collapseSlashes(s) ==
  IF s = << >> THEN << >>
  ELSE IF Head(s) = "/" /\ Len(s) > 1 /\ s[2] = "/" THEN collapseSlashes(Tail(s))
  ELSE <<Head(s)>> \o collapseSlashes(Tail(s))

replacedFileName(path, suffix) == nameWithoutExt(fileNameOf(path)) \o suffix

\* the destination without the .replace(/\/+/g, '/')
fbPathNoCollapse(path, suffix) ==
  directoryOf(path) \o s_slash \o replacedFileName(path, suffix)

fbPath(path, suffix) ==
  collapseSlashes(directoryOf(path) \o s_slash \o replacedFileName(path, suffix))

\* the write a route makes for an output: the call, its destination, the
\* override flag and the newPath reported
outputTarget(saveMode, path, suffix) ==
  IF saveMode = "local"
    THEN [op |-> "writeFile", path |-> replacedFileName(path, suffix),
          override |-> FALSE, newPath |-> s_slash \o replacedFileName(path, suffix)]
  ELSE IF saveMode = "overwrite"
    THEN [op |-> "uploadFile", path |-> path, override |-> TRUE, newPath |-> path]
  ELSE [op |-> "uploadFile", path |-> fbPath(path, suffix), override |-> FALSE,
        newPath |-> fbPath(path, suffix)]

(***************************************************************************)
(* Batch Orchestrator: the POST handlers of the process route (simple and  *)
(* advanced mode), the replace route and the fix-slug-urls route.          *)
(***************************************************************************)
NULL == <<"null">>

StatsEvery == 10

NoFile == ""

ZeroStats ==
  [totalFiles |-> 0, processedFiles |-> 0, totalRows |-> 0, processedRows |-> 0,
   totalMatches |-> 0, totalReplacements |-> 0, currentFile |-> NoFile]

NoLocals ==
  [rows |-> << >>, headers |-> << >>, i |-> 0, processedRows |-> << >>,
   fileMatches |-> 0, fileReplacements |-> 0]

\* an event of the stream; the fields an event type does not carry stay at
\* their defaults
Event(type, filename) ==
  [type |-> type, filename |-> filename, rowIndex |-> 0, matches |-> << >>,
   stats |-> ZeroStats, matchesCount |-> 0, replacementsCount |-> 0,
   newPath |-> NULL]

\* a stats event that reports the rows kept of the current file as processedRows
StatsEventOfFile(st) ==
  [Event("stats", NoFile) EXCEPT
     !.stats = [st EXCEPT !.processedRows = Len(cur.processedRows)]]

StatsEvent(st) == [Event("stats", NoFile) EXCEPT !.stats = st]

RowEvent(filename, rowIndex, matches) ==
  [Event("row-processed", filename) EXCEPT !.rowIndex = rowIndex,
                                          !.matches = matches]

FileCompleteEvent(filename, matchesCount, replacementsCount, newPath) ==
  [Event("file-complete", filename) EXCEPT !.matchesCount = matchesCount,
                                          !.replacementsCount = replacementsCount,
                                          !.newPath = newPath]

\* filesMap: the search results that have rows, keyed by path; a later result
\* of the same path replaces the earlier one in place
RECURSIVE filesMapOf(_, _, _)
filesMapOf(searchResults, k, acc) ==
  IF k > Len(searchResults) THEN acc
  ELSE LET result == searchResults[k]
           at == {j \in 1..Len(acc) : acc[j].path = result.path}
       IN  IF result.rows = {} THEN filesMapOf(searchResults, k + 1, acc)
           ELSE IF at = {} THEN filesMapOf(searchResults, k + 1, Append(acc, result))
           ELSE filesMapOf(searchResults, k + 1,
                           [j \in 1..Len(acc) |-> IF j \in at THEN result ELSE acc[j]])

\* the files the handler's loop iterates
loopFiles(r) ==
  IF r.route = "process" THEN r.files ELSE filesMapOf(r.files, 1, << >>)

\* advanced && Array.isArray(advanced.conditions) && advanced.conditions.length > 0
useAdvanced(r) == r.route = "process" /\ r.advanced.conditions # << >>

\* the operations of a replace request: replaceOperations, or the single
\* replaceTargetField / replaceValue pair
operationsOf(r) ==
  IF r.replaceOperations # << >> THEN r.replaceOperations
  ELSE IF IsSetField(r.replaceTargetField) /\ r.replaceValue # UNDEFINED
    THEN <<[field |-> r.replaceTargetField, value |-> r.replaceValue]>>
  ELSE << >>

\* a validation that rejects a request without files only
requestErrorFilesOnly(r) ==
  IF r.files = << >> THEN "Files are required" ELSE ""

\* the request-level error of a request, "" when it passes validation
requestError(r) ==
  IF r.files = << >> THEN
    (IF r.route = "process" THEN "Files are required"
     ELSE "No search results provided")
  ELSE IF r.route = "process" THEN
    (IF ~useAdvanced(r) /\ ~IsSet(r.searchTerm)
       THEN "Search term is required in simple mode" ELSE "")
  ELSE IF r.route = "replace" /\ r.replaceOperations = << >>
          /\ ~IsSetField(r.replaceTargetField)
    THEN "Either replaceOperations or replaceTargetField must be provided"
  ELSE IF r.route = "replace" /\ r.replaceOperations = << >>
          /\ r.replaceValue = UNDEFINED
    THEN "Replace value must be provided (empty string is allowed)"
  ELSE IF r.route = "replace"
          /\ \E k \in 1..Len(operationsOf(r)) : operationsOf(r)[k].field = ""
    THEN "All replace operations must have a field specified"
  ELSE IF r.route = "replace"
          /\ \E k \in 1..Len(operationsOf(r)) : operationsOf(r)[k].value = UNDEFINED
    THEN "All replace operations must have a value specified (empty string is allowed)"
  ELSE IF loopFiles(r) = << >> THEN "No files with matching rows found"
  ELSE ""

\* the error path that calls controller.close() itself before the finally
\* block closes again
closesBeforeFinally(r) ==
  requestError(r) # "Search term is required in simple mode"

Emit(evs) == events' = events \o evs

\* request validation and the stats initialisation
Validate ==
  /\ pc = "request"
  /\ IF requestError(req) # ""
       THEN /\ Emit(<<Event("error", NoFile)>>)
            /\ closeCalls' = IF closesBeforeFinally(req) THEN 2 ELSE 1
            /\ pc' = "closed"
            /\ stats' = stats
       ELSE /\ stats' = [ZeroStats EXCEPT !.totalFiles = Len(loopFiles(req))]
            /\ pc' = "fileStart"
            /\ UNCHANGED <<events, closeCalls>>
  /\ fileList' = IF requestError(req) # "" THEN << >> ELSE loopFiles(req)
  /\ opList' = IF requestError(req) # "" THEN << >> ELSE operationsOf(req)
  /\ UNCHANGED <<call, req, idx, cur, store, localFiles, io>>

\* a loop that walks the files from the last to the first
fileFromLast == fileList[Len(fileList) + 1 - idx]

file == fileList[idx]

\* the head of a loop iteration, up to the download
FileStart ==
  /\ pc = "fileStart"
  /\ idx <= Len(fileList)
  /\ stats' = [stats EXCEPT !.currentFile = file.name]
  /\ Emit(<<Event("file-start", file.name)>>)
  /\ pc' = "download"
  /\ cur' = NoLocals
  /\ UNCHANGED <<call, req, fileList, opList, idx, store, localFiles, io, closeCalls>>

\* a catch block outside the loop: the error ends the batch
FileFailsAbortsBatch ==
  /\ Emit(<<Event("error", file.name)>>)
  /\ idx' = idx
  /\ pc' = "closed"

\* the catch block of a loop iteration: the error event, then the next file
FileFails ==
  /\ Emit(<<Event("error", file.name)>>)
  /\ idx' = idx + 1
  /\ pc' = "fileStart"

\* filebrowserClient.downloadFile rejects
DownloadFail ==
  /\ pc = "download"
  /\ FileFails
  /\ UNCHANGED <<call, req, fileList, opList, cur, stats, store, localFiles, io, closeCalls>>

\* the error a file is rejected with once parsed, "" when it is accepted
fileError(r, ops, content) ==
  LET headers == headersOf(content)
  IN  IF content.errors THEN "CSV parsing errors"
      ELSE IF r.route = "replace"
              /\ \E k \in 1..Len(ops) : ops[k].field \notin Range(headers)
        THEN "Fields not found in CSV headers"
      ELSE IF r.route = "fixSlug" /\ "slug_url" \notin Range(headers)
        THEN "Field slug_url not found in CSV headers"
      ELSE IF r.route = "fixSlug" /\ "location" \notin Range(headers)
        THEN "Field location not found in CSV headers"
      ELSE IF r.route = "process" /\ ~useAdvanced(r) /\ searchRegexThrows(r)
        THEN "Invalid regular expression"
      ELSE ""

\* the download resolves: parse, header checks, file-info
DownloadOk ==
  /\ pc = "download"
  /\ file.path \in DOMAIN store
  /\ LET content == store[file.path]
     IN  IF fileError(req, opList, content) # ""
           THEN /\ FileFails
                /\ cur' = cur
                /\ stats' = IF content.errors THEN stats
                             ELSE [stats EXCEPT !.totalRows = @ + Len(content.rows)]
           ELSE /\ stats' = [stats EXCEPT !.totalRows = @ + Len(content.rows)]
                /\ cur' = [NoLocals EXCEPT !.rows = content.rows,
                                           !.headers = headersOf(content)]
                /\ Emit(<<Event("file-info", file.name)>>)
                /\ pc' = IF content.rows = << >> THEN "persist" ELSE "scan"
                /\ idx' = idx
  /\ UNCHANGED <<call, req, fileList, opList, store, localFiles, io, closeCalls>>

\* one iteration of the row loop of the route serving r
rowStep(r, ops, f, row, headers, i) ==
  IF r.route = "replace"
    THEN Step(replaceRow(row, headers, ops, i \in f.rows), FALSE, TRUE)
  ELSE IF r.route = "fixSlug"
    THEN Step(fixSlugRow(row, i \in f.rows), FALSE, TRUE)
  ELSE IF useAdvanced(r) THEN advancedRowStep(r, row, headers)
  ELSE simpleRowStep(r, row, headers)

\* (i + 1) % 10 === 0 || i === rows.length - 1, for the 1-based i
statsDue(i, n) == i % StatsEvery = 0 \/ i = n

\* a row loop that counts every matched field of a row
ScanRowCountsFields ==
  /\ pc = "scan"
  /\ \E step \in {rowStep(req, opList, file, cur.rows[cur.i + 1], cur.headers,
                           cur.i + 1)} :
     LET i == cur.i + 1
         n == Len(cur.rows)
         st == [stats EXCEPT !.processedRows = @ + 1,
                             !.totalMatches = @ + Len(step.events),
                             !.totalReplacements = @ + step.count]
     IN  IF step.threw
           THEN /\ FileFails
                /\ UNCHANGED <<cur, stats>>
           ELSE /\ stats' = st
                /\ cur' = [cur EXCEPT
                     !.i = i,
                     !.processedRows = IF step.keep THEN Append(@, step.row) ELSE @,
                     !.fileMatches = @ + Len(step.events),
                     !.fileReplacements = @ + step.count]
                /\ Emit((IF step.events # << >>
                           THEN <<RowEvent(file.name, i, step.events)>> ELSE << >>)
                        \o (IF statsDue(i, n) THEN <<StatsEvent(st)>> ELSE << >>))
                /\ pc' = IF i = n THEN "persist" ELSE "scan"
                /\ idx' = idx
  /\ UNCHANGED <<call, req, fileList, opList, store, localFiles, io, closeCalls>>

\* one row of the current file
ScanRow ==
  /\ pc = "scan"
  /\ \E step \in {rowStep(req, opList, file, cur.rows[cur.i + 1], cur.headers,
                           cur.i + 1)} :
     LET i == cur.i + 1
         n == Len(cur.rows)
         st == [stats EXCEPT !.processedRows = @ + 1,
                             !.totalMatches = @ + (IF step.matched THEN 1 ELSE 0),
                             !.totalReplacements = @ + step.count]
     IN  IF step.threw
           THEN /\ FileFails
                /\ UNCHANGED <<cur, stats>>
           ELSE /\ stats' = st
                /\ cur' = [cur EXCEPT
                     !.i = i,
                     !.processedRows = IF step.keep THEN Append(@, step.row) ELSE @,
                     !.fileMatches = @ + (IF step.matched THEN 1 ELSE 0),
                     !.fileReplacements = @ + step.count]
                /\ Emit((IF step.events # << >>
                           THEN <<RowEvent(file.name, i, step.events)>> ELSE << >>)
                        \o (IF statsDue(i, n) THEN <<StatsEvent(st)>> ELSE << >>))
                /\ pc' = IF i = n THEN "persist" ELSE "scan"
                /\ idx' = idx
  /\ UNCHANGED <<call, req, fileList, opList, store, localFiles, io, closeCalls>>

\* whether the route writes an output for the file just scanned
writesOutput(r, c) ==
  IF r.route = "process"
    THEN IF useAdvanced(r) THEN advancedIsReplaceMode(r) ELSE IsSet(r.replaceTerm)
    ELSE persistsOutput(c.fileReplacements)

outputSuffix(r) == IF r.route = "fixSlug" THEN s_fixed_csv ELSE s_replaced_csv

\* matchesCount of file-complete
matchesCountOf(r, c) ==
  IF r.route = "process" THEN c.fileMatches ELSE c.fileReplacements

\* every file that reaches file-complete is counted
countsEveryFile(r, c) == TRUE

\* processedFiles++ of a file that reaches file-complete
countsAsProcessed(r, c) ==
  r.route = "process" \/ persistsOutput(c.fileReplacements)

\* the tail of a loop iteration with the stats sent before file-complete
FileCompletesStatsFirst(newPath) ==
  LET st == [stats EXCEPT
               !.processedFiles = @ + (IF countsAsProcessed(req, cur) THEN 1 ELSE 0),
               !.currentFile = NoFile]
  IN  /\ stats' = st
      /\ Emit(<<StatsEvent(st),
                FileCompleteEvent(file.name, matchesCountOf(req, cur),
                                  cur.fileReplacements, newPath)>>)
      /\ idx' = idx + 1
      /\ pc' = "fileStart"

\* the tail of a loop iteration: file-complete and the stats that follow it
FileCompletes(newPath) ==
  LET st == [stats EXCEPT
               !.processedFiles = @ + (IF countsAsProcessed(req, cur) THEN 1 ELSE 0),
               !.currentFile = NoFile]
  IN  /\ stats' = st
      /\ Emit(<<FileCompleteEvent(file.name, matchesCountOf(req, cur),
                                  cur.fileReplacements, newPath),
                StatsEvent(st)>>)
      /\ idx' = idx + 1
      /\ pc' = "fileStart"

\* a record of one uploadFile / fs.writeFile call: what was called, for which
\* source file, after how many replacements, and whether it resolved
IoCall(target, source, replacements, ok) ==
  [op |-> target.op, path |-> target.path, override |-> target.override,
   source |-> source, replacements |-> replacements, ok |-> ok]

\* no output is due for the file
PersistNone ==
  /\ pc = "persist"
  /\ ~writesOutput(req, cur)
  /\ FileCompletes(NULL)
  /\ UNCHANGED <<call, req, fileList, opList, cur, store, localFiles, io, closeCalls>>

\* the output is written: fs.writeFile or uploadFile resolves
PersistWrite ==
  /\ pc = "persist"
  /\ writesOutput(req, cur)
  /\ \E target \in {outputTarget(req.saveMode, file.path, outputSuffix(req))} :
     LET newCsv == unparse(cur.processedRows, cur.headers)
     IN  /\ IF target.op = "writeFile"
              THEN /\ localFiles' = (target.path :> newCsv) @@ localFiles
                   /\ store' = store
              ELSE /\ store' = (target.path :> newCsv) @@ store
                   /\ localFiles' = localFiles
         /\ io' = Append(io, IoCall(target, file.path, cur.fileReplacements, TRUE))
         /\ FileCompletes(target.newPath)
  /\ UNCHANGED <<call, req, fileList, opList, cur, closeCalls>>

\* a rejected write reported after the file-complete of the file
PersistFailAfterComplete ==
  /\ pc = "persist"
  /\ writesOutput(req, cur)
  /\ io' = Append(io, IoCall(outputTarget(req.saveMode, file.path, outputSuffix(req)),
                            file.path, cur.fileReplacements, FALSE))
  /\ Emit(<<FileCompleteEvent(file.name, matchesCountOf(req, cur),
                              cur.fileReplacements, NULL),
            Event("error", file.name)>>)
  /\ idx' = idx + 1
  /\ pc' = "fileStart"
  /\ UNCHANGED <<call, req, fileList, opList, cur, stats, store, localFiles, closeCalls>>

\* fs.writeFile or uploadFile rejects: nothing is stored
PersistFail ==
  /\ pc = "persist"
  /\ writesOutput(req, cur)
  /\ io' = Append(io, IoCall(outputTarget(req.saveMode, file.path, outputSuffix(req)),
                            file.path, cur.fileReplacements, FALSE))
  /\ FileFails
  /\ UNCHANGED <<call, req, fileList, opList, cur, stats, store, localFiles, closeCalls>>

\* after the loop: the terminal complete event, then the finally block
Complete ==
  /\ pc = "fileStart"
  /\ idx > Len(fileList)
  /\ Emit(<<[Event("complete", NoFile) EXCEPT !.stats = stats]>>)
  /\ closeCalls' = closeCalls + 1
  /\ pc' = "closed"
  /\ UNCHANGED <<call, req, fileList, opList, idx, cur, stats, store, localFiles, io>>

\* a directory with no file
EmptyDir == [p \in {} |-> FileContent(FALSE, << >>, << >>)]

\* the request body with every optional field absent, and the defaults the
\* handlers give to saveMode and the flags
NoRequest ==
  [route |-> "process", files |-> << >>, saveMode |-> "filebrowser",
   searchTerm |-> UNDEFINED, replaceTerm |-> UNDEFINED, selectedFields |-> << >>,
   showOnlyMatches |-> FALSE, caseSensitive |-> FALSE, wholeWord |-> FALSE,
   useRegex |-> FALSE,
   advanced |-> [conditions |-> << >>, logic |-> "", caseSensitive |-> FALSE],
   replaceTargetField |-> "", replaceValue |-> UNDEFINED,
   replaceOperations |-> << >>]

\* no handler is running
RouteIdle ==
  /\ req = NoRequest
  /\ pc = "idle"
  /\ fileList = << >>
  /\ opList = << >>
  /\ idx = 1
  /\ cur = NoLocals
  /\ stats = ZeroStats
  /\ events = << >>
  /\ store = EmptyDir
  /\ localFiles = EmptyDir
  /\ io = << >>
  /\ closeCalls = 0

(***************************************************************************)
(* The evaluator applied to bounded inputs.                                *)
(***************************************************************************)
MaxConds == 2

EvalCellValues == {<< >>, <<"x">>, <<"X">>, <<"z">>, <<"x", "y">>}

\* a scanned file's rows carry exactly the keys of its header line
EvalHeaders == {<<"A", "B">>, <<"A">>}

EvalRows(headers) == [Range(headers) -> EvalCellValues]

Cond(f, m, v) == [field |-> f, mode |-> m, value |-> v]

EvalConds ==
  { Cond("A", "equals", <<"x">>),
    Cond("B", "equals", <<"y">>),
    Cond("A", "contains", <<"X">>),
    Cond("B", "startsWith", <<"x">>),
    Cond("A", "endsWith", <<"y">>),
    Cond("C", "equals", <<"x">>),
    Cond("A", "equals", << >>),
    Cond("B", "contains", <<" ">>),
    Cond("A", "regex", <<"^", "x">>),
    Cond("B", "regex", <<"(">>) }

SeqsUpTo(S, n) == UNION {[1..k -> S] : k \in 0..n}

EvalInput(h, r, cs, lg, sens) ==
  [fn |-> "rowMatchesAdvanced", done |-> FALSE, row |-> r, headers |-> h,
   advanced |-> [conditions |-> cs, logic |-> lg, caseSensitive |-> sens],
   result |-> Returns(FALSE, << >>)]

InitEval ==
  /\ RouteIdle
  /\ \E h \in EvalHeaders : \E r \in EvalRows(h) :
       \E cs \in SeqsUpTo(EvalConds, MaxConds) :
         \E lg \in {"", "AND", "OR"}, sens \in BOOLEAN :
           call = EvalInput(h, r, cs, lg, sens)

ApplyRowMatchesAdvanced ==
  /\ call.fn = "rowMatchesAdvanced"
  /\ ~call.done
  /\ call' = [call EXCEPT !.done = TRUE,
                          !.result = rowMatchesAdvanced(call.row, call.headers,
                                                        call.advanced)]
  /\ UNCHANGED routeVars

NextEval == ApplyRowMatchesAdvanced

SpecEval == InitEval /\ [][NextEval]_vars

(***************************************************************************)
(* The row steps of the replace and fix-slug-urls routes applied to        *)
(* bounded inputs.                                                         *)
(***************************************************************************)
MaxOps == 2

MaxPieces == 2

SlugValues ==
  { <<"e", "n", "g", "i", "n", "e", "e", "r", "-", "s", "a", "l", "a", "r", "y">>,
    <<"e", "n", "g", "i", "n", "e", "e", "r", "-", "s", "a", "l", "a", "r", "y", "-", "r", "o", "m", "e">>,
    <<" ", "e", "n", "g", "i", "n", "e", "e", "r", "-", "s", "a", "l", "a", "r", "y">>,
    <<"e", "n", "g", "i", "n", "e", "e", "r", "-", "s", "a", "l", "a", "r", "y", "-", "r", "o", "m", "e", " ">>,
    <<"e", "n", "g", "i", "n", "e", "e", "r">>,
    <<"a", "-", "s", "a", "l", "a", "r", "y", "-", "b", "-", "s", "a", "l", "a", "r", "y">>,
    <<"a", "-", "s", "a", "l", "a", "r", "y", "m", "a", "n">>,
    << >> }

OldLocations ==
  { <<"O", "l", "d">>,
    <<"R", "o", "m", "e">>,
    << >> }

s_title == <<"T">>

Op(f, v) == [field |-> f, value |-> v]

ReplaceOps ==
  { Op("location", <<"S", "a", "o", " ", "P", "a", "u", "l", "o">>),
    Op("location", <<"S", "U00E3", "o", " ", "P", "a", "u", "l", "o">>),
    Op("location", <<"R", "o", "m", "e">>),
    Op("location", << >>),
    Op("location", <<"!">>),
    Op("title", <<"T", "2">>),
    Op("slug_url", <<"x", "-", "s", "a", "l", "a", "r", "y">>) }

ReplaceHeaders == {<<"slug_url", "title", "location">>, <<"title", "location">>}

ReplaceRowOf(h, slug, loc) ==
  [f \in Range(h) |-> CASE f = "slug_url" -> slug
                        [] f = "location" -> loc
                        [] OTHER          -> s_title]

\* the route rejects a file when an operation names a field missing from its
\* headers, so a row step only sees operations on existing fields
OpsOnHeaders(ops, h) == \A k \in 1..Len(ops) : ops[k].field \in Range(h)

InitReplaceRow ==
  /\ RouteIdle
  /\ \E h \in ReplaceHeaders, slug \in SlugValues, loc \in OldLocations :
       \E ops \in SeqsUpTo(ReplaceOps, MaxOps), sel \in BOOLEAN :
         /\ OpsOnHeaders(ops, h)
         /\ "slug_url" \notin Range(h) => slug = << >>
         /\ call = [fn |-> "replaceRow", done |-> FALSE,
                    row |-> ReplaceRowOf(h, slug, loc),
                    headers |-> h, operations |-> ops, selected |-> sel,
                    result |-> RowResult(ReplaceRowOf(h, slug, loc), << >>, 0)]

ApplyReplaceRow ==
  /\ call.fn = "replaceRow"
  /\ ~call.done
  /\ call' = [call EXCEPT !.done = TRUE,
                          !.result = replaceRow(call.row, call.headers,
                                                call.operations, call.selected)]
  /\ UNCHANGED routeVars

LocationPieces ==
  { <<"R", "o", "m", "e">>,
    <<" ">>,
    <<"s", "a", "l", "a", "r", "y">>,
    <<"-">>,
    <<"!">>,
    <<"U00E3">>,
    <<"A">> }

RECURSIVE Flatten(_)
Flatten(ss) == IF ss = << >> THEN << >> ELSE Head(ss) \o Flatten(Tail(ss))

FixSlugValues ==
  { <<"e", "-", "s", "a", "l", "a", "r", "y">>,
    <<"e", "-", "s", "a", "l", "a", "r", "y", "-", "r", "o", "m", "e">>,
    <<" ", "e", "-", "s", "a", "l", "a", "r", "y", " ">>,
    <<"e">>,
    <<"e", "-", "s", "a", "l", "a", "r", "y", "-", "s", "a", "l", "a", "r", "y">>,
    <<"e", "-", "s", "a", "l", "a", "r", "y", "-", "r", "o", "m", "e", "-", "s", "a", "l", "a", "r", "y">>,
    << >> }

FixHeaders == <<"slug_url", "title", "location">>

\* the fix-slug-urls route run twice over a row: the second run reads what the
\* first one produced
InitFixSlug ==
  /\ RouteIdle
  /\ \E slug \in FixSlugValues, ps \in SeqsUpTo(LocationPieces, MaxPieces),
        sel \in BOOLEAN :
       call = [fn |-> "fixSlugRow", runs |-> 0,
               row |-> ReplaceRowOf(FixHeaders, slug, Flatten(ps)),
               selected |-> sel, outputs |-> << >>, fixes |-> << >>]

FixSlugRun ==
  /\ call.fn = "fixSlugRow"
  /\ call.runs < 2
  /\ LET r == fixSlugRow(call.row, call.selected)
     IN  call' = [call EXCEPT !.runs = @ + 1, !.row = r.row,
                             !.outputs = Append(@, r.row),
                             !.fixes = Append(@, r.count)]
  /\ UNCHANGED routeVars

\* the values typed into a replace condition of the panel
ConditionValues ==
  { <<"e", "m", "p", "t", "y">>,
    <<" ", "E", "m", "p", "t", "y", " ">>,
    <<"E", "M", "P", "T", "Y">>,
    <<"e", "m", "p", "t", "y", "!">>,
    <<"R", "o", "m", "e">>,
    << >> }

ReplaceConditions ==
  {[field |-> f, value |-> v] : f \in {"title", "location", ""}, v \in ConditionValues}

\* a comparison with 'empty' that skips trim() and toLowerCase()
actualValueExact(value) ==
  IF value = <<"e", "m", "p", "t", "y">> THEN << >> ELSE value

\* cond.value.trim().toLowerCase() === 'empty' ? '' : cond.value
actualValue(value) ==
  IF toLowerCase(trim(value)) = <<"e", "m", "p", "t", "y">> THEN << >> ELSE value

\* replaceConditions.filter((cond) => cond.field && ...)
activeReplaceConditions(replaceConditions) ==
  SelectSeq(replaceConditions, LAMBDA cond : IsSetField(cond.field))

\* the replaceOperations of the payload startReplace posts
replaceOperationsOf(replaceConditions) ==
  LET active == activeReplaceConditions(replaceConditions)
  IN  [k \in 1..Len(active) |-> Op(active[k].field, actualValue(active[k].value))]

\* startReplace of the panel followed by the row step of the replace route on
\* a row of the search results
InitStartReplace ==
  /\ RouteIdle
  /\ \E conds \in SeqsUpTo(ReplaceConditions, MaxOps), loc \in OldLocations,
        slug \in {SALARY, << >>}, sel \in BOOLEAN :
       call = [fn |-> "startReplace", done |-> FALSE,
               replaceConditions |-> conds, selected |-> sel,
               row |-> ReplaceRowOf(FixHeaders, slug, loc),
               operations |-> << >>,
               result |-> RowResult(ReplaceRowOf(FixHeaders, slug, loc), << >>, 0)]

StartReplaceRun ==
  /\ call.fn = "startReplace"
  /\ ~call.done
  /\ activeReplaceConditions(call.replaceConditions) # << >>
  /\ \E ops \in {replaceOperationsOf(call.replaceConditions)} :
       call' = [call EXCEPT !.done = TRUE, !.operations = ops,
                            !.result = replaceRow(call.row, FixHeaders, ops,
                                                  call.selected)]
  /\ UNCHANGED routeVars

InitSlug == InitReplaceRow \/ InitFixSlug \/ InitStartReplace

NextSlug == ApplyReplaceRow \/ FixSlugRun \/ StartReplaceRun

SpecSlug == InitSlug /\ [][NextSlug]_vars

(***************************************************************************)
(* The Slug Normalizer applied twice to bounded inputs.                    *)
(***************************************************************************)

MaxNormLen == 3

\* an upper-case and a lower-case letter, a digit, the underscore, the
\* hyphen, two kinds of whitespace, punctuation, a precomposed accented
\* letter and a bare combining mark
NormChars == {"A", "b", "7", "_", "-", " ", "TAB", "!", "U00E3", "U0301"}

InitNorm ==
  /\ RouteIdle
  /\ \E input \in SeqsUpTo(NormChars, MaxNormLen) :
       call = [fn |-> "normalizeToKebabCase", runs |-> 0, input |-> input,
               value |-> input, outputs |-> << >>]

NormalizeRun ==
  /\ call.fn = "normalizeToKebabCase"
  /\ call.runs < 2
  /\ \E out \in {normalizeToKebabCase(call.value)} :
       call' = [call EXCEPT !.runs = @ + 1, !.value = out,
                            !.outputs = Append(@, out)]
  /\ UNCHANGED routeVars

SpecNorm == InitNorm /\ [][NormalizeRun]_vars

(***************************************************************************)
(* The route handlers serving bounded requests over a small file server.   *)
(***************************************************************************)
MaxFiles == 2

s_foo == <<"f", "o", "o">>

s_bar == <<"b", "a", "r">>

s_rome == <<"r", "o", "m", "e">>

s_Rome == <<"R", "o", "m", "e">>

s_Oslo == <<"O", "s", "l", "o">>

s_dev == <<"d", "e", "v">>

s_ny == <<"n", "y">>

s_e_salary == <<"e", "-", "s", "a", "l", "a", "r", "y">>

s_n_salary_rome ==
  <<"n", "-", "s", "a", "l", "a", "r", "y", "-", "r", "o", "m", "e">>

PathA == <<"/", "d", "/", "a", ".", "c", "s", "v">>

PathB == <<"/", "b", ".", "c", "s", "v">>

PathC == <<"/", "d", "/", "c", ".", "C", "S", "V">>

HeadersA == <<"slug_url", "location", "state">>

HeadersB == <<"title", "state">>

RowA(slug, loc, state) ==
  [f \in Range(HeadersA) |-> CASE f = "slug_url" -> slug
                               [] f = "location" -> loc
                               [] OTHER          -> state]

RowB == [f \in Range(HeadersB) |-> IF f = "title" THEN s_dev ELSE s_ny]

RowsInB == StatsEvery + 1

\* the files on the server: a.csv (three rows, all with state foo), b.csv in
\* the root directory (eleven equal rows, no foo) and c.CSV, which does not
\* parse
ServerFiles ==
  (PathA :> FileContent(FALSE, HeadersA,
              <<RowA(s_e_salary, s_Rome, s_foo),
                RowA(s_n_salary_rome, s_Rome, s_foo),
                RowA(<<"x">>, << >>, s_foo)>>))
  @@ (PathB :> FileContent(FALSE, HeadersB, [i \in 1..RowsInB |-> RowB]))
  @@ (PathC :> FileContent(TRUE, << >>, << >>))

\* an entry of files / searchResults: its rows are the 1-based indices a
\* search selected (ignored by the process route)
FileEntry(path, name, rows) == [path |-> path, name |-> name, rows |-> rows]

FileEntries ==
  { FileEntry(PathA, "a.csv", {1, 3}),
    FileEntry(PathA, "a.csv", {2}),
    FileEntry(PathA, "a.csv", {}),
    FileEntry(PathB, "b.csv", {1}),
    FileEntry(PathC, "c.CSV", {1}) }

SaveModes == {"filebrowser", "overwrite", "local"}

SimpleRequests ==
  { [NoRequest EXCEPT !.searchTerm = s_foo],
    [NoRequest EXCEPT !.searchTerm = s_rome, !.showOnlyMatches = TRUE],
    [NoRequest EXCEPT !.searchTerm = s_Rome, !.caseSensitive = TRUE,
                      !.replaceTerm = s_Oslo, !.selectedFields = <<"location">>,
                      !.showOnlyMatches = TRUE],
    [NoRequest EXCEPT !.searchTerm = s_rome, !.replaceTerm = s_Oslo,
                      !.selectedFields = <<"slug_url", "location">>],
    [NoRequest EXCEPT !.searchTerm = s_Rome \o <<" ">> \o s_foo],
    [NoRequest EXCEPT !.searchTerm = <<"(">>, !.useRegex = TRUE],
    NoRequest }
  \cup { [NoRequest EXCEPT !.searchTerm = s_foo, !.replaceTerm = s_bar,
                           !.selectedFields = <<"state">>, !.saveMode = m] :
           m \in SaveModes }

AdvancedOn(conds) == [conditions |-> conds, logic |-> "AND", caseSensitive |-> FALSE]

AdvancedRequests ==
  { [NoRequest EXCEPT !.advanced = AdvancedOn(<<Cond("state", "equals", s_foo)>>)],
    [NoRequest EXCEPT !.advanced = AdvancedOn(<<Cond("location", "contains", s_rome)>>),
                      !.showOnlyMatches = TRUE],
    [NoRequest EXCEPT !.advanced = AdvancedOn(<<Cond("state", "regex", <<"(">>)>>)],
    [NoRequest EXCEPT !.advanced = AdvancedOn(<<Cond("location", "equals", s_Rome)>>),
                      !.replaceTargetField = "location", !.replaceValue = s_Rome],
    [NoRequest EXCEPT !.advanced = AdvancedOn(<<Cond("state", "equals", s_foo)>>),
                      !.replaceTargetField = "nope",
                      !.replaceValue = s_Oslo] }
  \cup { [NoRequest EXCEPT !.advanced = AdvancedOn(<<Cond("state", "equals", s_foo)>>),
                           !.replaceTargetField = "location",
                           !.replaceValue = s_Oslo, !.saveMode = m] :
           m \in SaveModes }

ReplaceRequest == [NoRequest EXCEPT !.route = "replace"]

ReplaceRequests ==
  { [ReplaceRequest EXCEPT !.replaceOperations = <<Op("state", s_foo)>>],
    [ReplaceRequest EXCEPT !.replaceOperations =
                             <<Op("title", s_dev), Op("state", s_bar)>>],
    [ReplaceRequest EXCEPT !.replaceTargetField = "state", !.replaceValue = << >>],
    [ReplaceRequest EXCEPT !.replaceTargetField = "state"],
    [ReplaceRequest EXCEPT !.replaceOperations = <<Op("", s_foo)>>],
    [ReplaceRequest EXCEPT !.replaceOperations = <<Op("state", UNDEFINED)>>],
    ReplaceRequest }
  \cup { [ReplaceRequest EXCEPT !.replaceOperations = <<Op("location", s_Oslo)>>,
                                !.saveMode = m] : m \in SaveModes }

FixSlugRequests ==
  { [NoRequest EXCEPT !.route = "fixSlug", !.saveMode = m] : m \in SaveModes }

Requests ==
  SimpleRequests \cup AdvancedRequests \cup ReplaceRequests \cup FixSlugRequests

\* a request arrives whose files are taken from entries
InitOver(entries) ==
  /\ call = [fn |-> "none"]
  /\ \E r \in Requests : \E fs \in SeqsUpTo(entries, MaxFiles) :
       req = [r EXCEPT !.files = fs]
  /\ pc = "request"
  /\ fileList = << >>
  /\ opList = << >>
  /\ idx = 1
  /\ cur = NoLocals
  /\ stats = ZeroStats
  /\ events = << >>
  /\ store = ServerFiles
  /\ localFiles = EmptyDir
  /\ io = << >>
  /\ closeCalls = 0

Init == InitOver(FileEntries)

Next ==
  \/ Validate
  \/ FileStart
  \/ DownloadFail
  \/ DownloadOk
  \/ ScanRow
  \/ PersistNone
  \/ PersistWrite
  \/ PersistFail
  \/ Complete

Spec == Init /\ [][Next]_vars

\* the entries of the runs checked for progress: a.csv and c.CSV
FairEntries == {FileEntry(PathA, "a.csv", {1, 3}), FileEntry(PathC, "c.CSV", {1})}

FairInit == InitOver(FairEntries)

\* every await of the handler settles, so the handler always takes its next
\* step
FairSpec == FairInit /\ [][Next]_vars /\ WF_vars(Next)

(***************************************************************************)
(* CSVProcessorPanel (the client): the operations the user starts, the     *)
(* response streams being read and the handler of their events.  The       *)
(* panel's state is the record call, with fn = "panel".                    *)
(***************************************************************************)
MaxStarts == 2

PanelFiles == SubSeq(<<"a.csv", "b.csv", "c.CSV">>, 1, MaxFiles)

PanelEvent(type, filename) == [type |-> type, filename |-> filename]

\* the events a route sends for one file: its rows, file-complete and
\* stats, or the file's error event, after which the loop goes on to the
\* next file
fileEvents(filename, outcome) ==
  IF outcome = "error"
    THEN <<PanelEvent("file-start", filename), PanelEvent("error", filename)>>
    ELSE <<PanelEvent("file-start", filename),
           PanelEvent("row-processed", filename),
           PanelEvent("file-complete", filename),
           PanelEvent("stats", "")>>

RECURSIVE batchEvents(_, _)
batchEvents(names, outcomes) ==
  IF names = << >> THEN <<PanelEvent("complete", "")>>
  ELSE fileEvents(Head(names), outcomes[1])
         \o batchEvents(Tail(names), Tail(outcomes))

\* the response streams a route may send for the files of a request
ResponsesFor(names) ==
  {batchEvents(names, outcomes) :
     outcomes \in [1..Len(names) -> {"file-complete", "error"}]}

\* handleEvent: the panel after one event of a stream
handleEvent(p, ev) ==
  CASE ev.type = "file-start" ->
         [p EXCEPT !.fileResults =
            [f \in DOMAIN @ \cup {ev.filename} |->
               IF f \in DOMAIN @ THEN @[f] ELSE {}]]
    [] ev.type = "row-processed" ->
         [p EXCEPT !.hasSearchResults = TRUE,
                   !.fileResults =
            [f \in DOMAIN @ \cup {ev.filename} |->
               (IF f \in DOMAIN @ THEN @[f] ELSE {})
                 \cup (IF f = ev.filename THEN {1} ELSE {})]]
    [] ev.type \in {"complete", "error"} ->
         [p EXCEPT !.isProcessing = FALSE, !.operationType = "null"]
    [] OTHER -> p

\* the files of fileResults that hold a matched row, in the order of the
\* selection: the searchResults of a replace or fix-slug request
searchResultsOf(p) ==
  SelectSeq(PanelFiles,
            LAMBDA f : f \in DOMAIN p.fileResults /\ p.fileResults[f] # {})

openStream(p, operation, response) ==
  [p EXCEPT !.isProcessing = TRUE, !.operationType = operation,
            !.streams = Append(@, [operation |-> operation, left |-> response,
                                   done |-> FALSE])]

\* startProcessing, up to the first read of the response
startProcessing(p, response) ==
  openStream([p EXCEPT !.fileResults = << >>, !.hasSearchResults = FALSE],
             "search", response)

InitPanel ==
  /\ RouteIdle
  /\ \E conditions \in 0..1 :
       call = [fn |-> "panel", isProcessing |-> FALSE,
               operationType |-> "null", shouldAutoTrigger |-> FALSE,
               hasSearchResults |-> FALSE, conditions |-> conditions,
               fileResults |-> << >>, streams |-> << >>]

\* the Search button
ClickSearch ==
  /\ call.fn = "panel"
  /\ ~call.isProcessing
  /\ Len(PanelFiles) > 0
  /\ call.conditions > 0
  /\ Len(call.streams) < MaxStarts
  /\ \E response \in ResponsesFor(PanelFiles) :
       call' = startProcessing(call, response)
  /\ UNCHANGED routeVars

\* an edit button of the detection tables
handleEditFromState ==
  /\ call.fn = "panel"
  /\ ~call.shouldAutoTrigger
  /\ call' = [call EXCEPT !.conditions = 1, !.fileResults = << >>,
                          !.hasSearchResults = FALSE,
                          !.shouldAutoTrigger = TRUE]
  /\ UNCHANGED routeVars

\* the effect that starts the search an edit button asked for
AutoTrigger ==
  /\ call.fn = "panel"
  /\ call.shouldAutoTrigger
  /\ call.conditions > 0
  /\ Len(PanelFiles) > 0
  /\ ~call.isProcessing
  /\ Len(call.streams) < MaxStarts
  /\ \E response \in ResponsesFor(PanelFiles) :
       call' = startProcessing([call EXCEPT !.shouldAutoTrigger = FALSE],
                               response)
  /\ UNCHANGED routeVars

\* the Replace All button
startReplace ==
  /\ call.fn = "panel"
  /\ ~call.isProcessing
  /\ call.hasSearchResults
  /\ DOMAIN call.fileResults # {}
  /\ searchResultsOf(call) # << >>
  /\ Len(call.streams) < MaxStarts
  /\ \E response \in ResponsesFor(searchResultsOf(call)) :
       call' = openStream(call, "replace", response)
  /\ UNCHANGED routeVars

\* the Fix Slug URLs button
startFixSlugUrls ==
  /\ call.fn = "panel"
  /\ ~call.isProcessing
  /\ call.hasSearchResults
  /\ DOMAIN call.fileResults # {}
  /\ searchResultsOf(call) # << >>
  /\ Len(call.streams) < MaxStarts
  /\ \E response \in ResponsesFor(searchResultsOf(call)) :
       call' = openStream(call, "fix-slug-urls", response)
  /\ UNCHANGED routeVars

\* one event block of a stream reaches the read loop
ReadEvent ==
  /\ call.fn = "panel"
  /\ \E s \in 1..Len(call.streams) :
       /\ call.streams[s].left # << >>
       /\ \E p \in {handleEvent(call, Head(call.streams[s].left))} :
            call' = [p EXCEPT !.streams[s].left = Tail(@)]
  /\ UNCHANGED routeVars

\* reader.read() reports the end of a stream
ReadDone ==
  /\ call.fn = "panel"
  /\ \E s \in 1..Len(call.streams) :
       /\ call.streams[s].left = << >>
       /\ ~call.streams[s].done
       /\ call' = [call EXCEPT !.streams[s].done = TRUE,
                               !.isProcessing = FALSE,
                               !.operationType = "null"]
  /\ UNCHANGED routeVars

NextPanel ==
  \/ ClickSearch
  \/ handleEditFromState
  \/ AutoTrigger
  \/ startReplace
  \/ startFixSlugUrls
  \/ ReadEvent
  \/ ReadDone

SpecPanel == InitPanel /\ [][NextPanel]_vars

(***************************************************************************)
(* Claims about the Row Predicate Evaluator (checked under SpecEval).      *)
(***************************************************************************)
EvalDone == call.fn = "rowMatchesAdvanced" /\ call.done

\* a condition value that is empty or made of whitespace only
IsBlankValue(v) == \A i \in 1..Len(v) : IsSpace(v[i])

NonBlankIdx(conds) == {k \in 1..Len(conds) : ~IsBlankValue(conds[k].value)}

CallConds == call.advanced.conditions

CallLogicIsAnd == call.advanced.logic \in {"", "AND"}

FieldExists(k) == CallConds[k].field \in Range(call.headers)

\* the row's value for the field of condition k satisfies the condition
Satisfied(k) ==
  buildFieldMatcher(CallConds[k], call.advanced.caseSensitive,
                    call.row[CallConds[k].field])

\* C1: under AND logic (also when logic is unset) a row matches a list of
\* non-blank conditions iff every condition's field is in the headers and the
\* row's value for it satisfies the condition; one condition on a missing
\* field makes the row non-matching.
C1_AndMatchesIffAll ==
  (EvalDone /\ CallLogicIsAnd /\ ~call.result.threw
     /\ NonBlankIdx(CallConds) = 1..Len(CallConds) /\ CallConds # << >>)
  => /\ call.result.matches
          <=> \A k \in 1..Len(CallConds) : FieldExists(k) /\ Satisfied(k)
     /\ (\E k \in 1..Len(CallConds) : ~FieldExists(k)) => ~call.result.matches

\* an AND evaluation (logic unset) of two conditions, the first satisfied and
\* the second on a field missing from the headers: the row does not match
C1_Witness ==
  /\ EvalDone /\ call.advanced.logic = "" /\ ~call.result.threw
  /\ Len(CallConds) = 2 /\ NonBlankIdx(CallConds) = {1, 2}
  /\ FieldExists(1) /\ Satisfied(1) /\ ~FieldExists(2)
  /\ ~call.result.matches

ExampleConds == <<Cond("A", "equals", <<"x">>), Cond("B", "equals", <<"y">>)>>

ExampleRow == [f \in {"A", "B"} |-> IF f = "A" THEN <<"x">> ELSE <<"z">>]

IsExampleCall ==
  /\ CallConds = ExampleConds /\ call.headers = <<"A", "B">>
  /\ call.row = ExampleRow

\* C2: under OR logic a row matches iff at least one non-blank condition whose
\* field exists in the headers is satisfied (conditions on missing fields are
\* skipped); with [A equals "x", B equals "y"] the row {A:"x", B:"z"} matches
\* under OR and does not match under AND.
C2_OrMatchesIffAny ==
  /\ (EvalDone /\ call.advanced.logic = "OR" /\ ~call.result.threw
        /\ NonBlankIdx(CallConds) # {})
     => (call.result.matches
           <=> \E k \in NonBlankIdx(CallConds) : FieldExists(k) /\ Satisfied(k))
  /\ (EvalDone /\ IsExampleCall)
     => (call.result.matches <=> call.advanced.logic = "OR")

\* an OR evaluation that matches although one of its conditions names a
\* field missing from the headers
C2_Witness ==
  /\ EvalDone /\ call.advanced.logic = "OR" /\ ~call.result.threw
  /\ Len(CallConds) = 2 /\ NonBlankIdx(CallConds) = {1, 2}
  /\ ~FieldExists(1) /\ FieldExists(2) /\ Satisfied(2)
  /\ call.result.matches

\* the match decision the claims give for the conditions of the index set K
DecisionOver(K) ==
  IF K = {} THEN TRUE
  ELSE IF CallLogicIsAnd THEN \A k \in K : FieldExists(k) /\ Satisfied(k)
  ELSE \E k \in K : FieldExists(k) /\ Satisfied(k)

\* C3: under AND and under OR a condition whose value is empty or whitespace
\* only takes no part in the decision: the decision is the one of the non-blank
\* conditions alone, and when every condition of a non-empty list is blank the
\* row matches.
C3_BlankConditionsNeutral ==
  EvalDone
  => /\ ~call.result.threw
          => (call.result.matches <=> DecisionOver(NonBlankIdx(CallConds)))
     /\ (CallConds # << >> /\ NonBlankIdx(CallConds) = {})
          => (~call.result.threw /\ call.result.matches)
     /\ call.result.threw
          <=> \E k \in NonBlankIdx(CallConds) : MatcherThrows(CallConds[k])

\* an OR evaluation whose only conditions are an empty-valued equals and a
\* whitespace-valued contains, on a row whose cells are not empty: it matches
C3_Witness ==
  /\ EvalDone /\ call.advanced.logic = "OR"
  /\ CallConds = <<Cond("A", "equals", << >>), Cond("B", "contains", <<" ">>)>>
  /\ call.headers = <<"A", "B">>
  /\ call.row["A"] # << >> /\ call.row["B"] # << >>
  /\ call.result.matches

(***************************************************************************)
(* Claims about the derived slug_url rule and the fix-slug operation       *)
(* (checked under SpecSlug).                                               *)
(***************************************************************************)
ReplaceDone == call.fn = "replaceRow" /\ call.done

\* an operation changed the location field of the selected row
LocationChanged ==
  /\ call.selected
  /\ \E k \in 1..Len(call.result.events) : call.result.events[k].field = "location"

HasSlugUrl == "slug_url" \in Range(call.headers)

SlugOps == {k \in 1..Len(call.operations) : call.operations[k].field = "slug_url"}

\* the row's slug_url once the operations are applied, before the derived rule
SlugAfterOps ==
  IF SlugOps = {} THEN call.row["slug_url"]
  ELSE call.operations[CHOOSE k \in SlugOps : \A j \in SlugOps : j <= k].value

\* the slug ends with -salary, or carries a suffix after -salary
CoveredSlug(slug) == endsWith(slug, SALARY) \/ includes(slug, SALARY \o <<"-">>)

\* the shortest prefix of slug that ends with -salary
SalaryBase(slug) ==
  SubSeq(slug, 1,
         CHOOSE n \in 1..Len(slug) :
           /\ endsWith(SubSeq(slug, 1, n), SALARY)
           /\ \A m \in 1..(n - 1) : ~endsWith(SubSeq(slug, 1, m), SALARY))

ExpectedSlug(slug, newLocation) ==
  IF normalizeToKebabCase(newLocation) # << >>
    THEN SalaryBase(slug) \o <<"-">> \o normalizeToKebabCase(newLocation)
    ELSE SalaryBase(slug)

s_engineer_salary == <<"e", "n", "g", "i", "n", "e", "e", "r", "-", "s", "a", "l", "a", "r", "y">>

s_engineer_salary_sao_paulo == <<"e", "n", "g", "i", "n", "e", "e", "r", "-", "s", "a", "l", "a", "r", "y", "-", "s", "a", "o", "-", "p", "a", "u", "l", "o">>

IsSaoPauloExample ==
  /\ ReplaceDone /\ call.selected /\ HasSlugUrl
  /\ call.row["slug_url"] = s_engineer_salary
  /\ call.operations = <<Op("location", <<"S", "a", "o", " ", "P", "a", "u", "l", "o">>)>>

\* C9 as stated: whenever an operation changes the location of a selected row
\* whose slug_url ends with -salary (or carries a suffix after it), slug_url
\* becomes the row's slug_url up to and including -salary, followed by
\* "-" + normalize(new location) when that is non-empty.
C9_Original ==
  (ReplaceDone /\ LocationChanged /\ HasSlugUrl /\ CoveredSlug(call.row["slug_url"]))
  => call.result.row["slug_url"]
       = ExpectedSlug(call.row["slug_url"], call.result.row["location"])

\* C9 (amended): the rule works on the slug_url as it stands after the
\* operations, trimmed of surrounding whitespace: when that ends with -salary
\* (or carries a suffix after it), slug_url becomes its prefix up to and
\* including the first -salary, followed by "-" + normalize(new location) when
\* that is non-empty and by nothing when it is empty; when this result equals
\* the trimmed value the field is left as it is.  "engineer-salary" with
\* location replaced by "Sao Paulo" gives "engineer-salary-sao-paulo".
C9_DerivedSlugRule ==
  /\ (ReplaceDone /\ LocationChanged /\ HasSlugUrl
         /\ CoveredSlug(trim(SlugAfterOps)))
     => LET expected == ExpectedSlug(trim(SlugAfterOps), call.result.row["location"])
        IN  call.result.row["slug_url"]
              = IF expected = trim(SlugAfterOps) THEN SlugAfterOps ELSE expected
  /\ IsSaoPauloExample
     => call.result.row["slug_url"] = s_engineer_salary_sao_paulo

\* the example of the claim, with the slug_url rewritten
C9_Witness ==
  /\ IsSaoPauloExample /\ LocationChanged
  /\ call.result.row["slug_url"] = s_engineer_salary_sao_paulo

FixSlugTwice == call.fn = "fixSlugRow" /\ call.runs = 2

\* C10: the fix-slug row step applied to the output of a first run changes no
\* slug_url: the second run reports zero replacements, so it persists nothing,
\* also when the normalized location ends with "salary".
C10_FixSlugIdempotent ==
  FixSlugTwice
  => /\ call.outputs[2] = call.outputs[1]
     /\ call.fixes[2] = 0
     /\ ~persistsOutput(call.fixes[2])

\* a row fixed by the first run whose normalized location ends with "salary",
\* so that the fixed slug_url again ends with -salary, after the second run
C10_Witness ==
  /\ FixSlugTwice
  /\ call.fixes[1] = 1
  /\ endsWith(normalizeToKebabCase(trim(call.row["location"])), <<"s", "a", "l", "a", "r", "y">>)
  /\ endsWith(call.outputs[1]["slug_url"], SALARY)

(***************************************************************************)
(* Claims about the Batch Orchestrator (checked under Spec and FairSpec).  *)
(***************************************************************************)
EventCount(t) == Cardinality({p \in 1..Len(events) : events[p].type = t})

\* the filenames of the file-start events, in order
RECURSIVE FileStartNames(_)
FileStartNames(evs) ==
  IF evs = << >> THEN << >>
  ELSE (IF Head(evs).type = "file-start" THEN <<Head(evs).filename>> ELSE << >>)
       \o FileStartNames(Tail(evs))

LoopFileNames == [k \in 1..Len(loopFiles(req)) |-> loopFiles(req)[k].name]

ValidRequest == pc = "request" /\ requestError(req) = ""

BatchEnded ==
  /\ pc = "closed"
  /\ FileStartNames(events) = LoopFileNames
  /\ EventCount("complete") = 1
  /\ events[Len(events)].type = "complete"

\* C4: a valid request over N >= 1 files always leads to the end of the
\* stream with one file-start per file, in the order of the files, and exactly
\* one complete event, the last of the stream, whichever files fail at
\* download, parse, scan or upload.
C4_FailureNeverAbortsBatch == ValidRequest ~> BatchEnded

\* a batch of two files ended after one of them failed and the other one
\* completed
C4_Witness ==
  /\ BatchEnded
  /\ Len(loopFiles(req)) = 2
  /\ \E p \in 1..Len(events) :
       events[p].type = "error" /\ events[p].filename = LoopFileNames[1]
  /\ \E p \in 1..Len(events) :
       events[p].type = "file-complete" /\ events[p].filename = LoopFileNames[2]

\* the position of the file-start that opens the iteration position p is in
SegmentStart(p) ==
  CHOOSE q \in 1..p :
    /\ events[q].type = "file-start"
    /\ \A j \in (q + 1)..p : events[j].type # "file-start"

\* the events of an iteration up to its file-complete at p: file-start,
\* file-info, then row-processed and stats events, all of the same file
OrderedUpTo(p) ==
  LET q == SegmentStart(p)
  IN  /\ q + 1 < p
      /\ events[q].filename = events[p].filename
      /\ events[q + 1].type = "file-info"
      /\ events[q + 1].filename = events[p].filename
      /\ \A j \in (q + 2)..(p - 1) :
           \/ events[j].type = "stats"
           \/ events[j].type = "row-processed"
              /\ events[j].filename = events[p].filename

\* nothing of the iteration follows position p
EndsIterationAt(p) ==
  p = Len(events) \/ events[p + 1].type \in {"file-start", "complete"}

\* an iteration that was left without an error has sent a file-complete
IterationsComplete ==
  \A q \in 1..Len(events) :
    (events[q].type = "file-start"
       /\ \E j \in (q + 1)..Len(events) : events[j].type \in {"file-start", "complete"})
    => \E p \in (q + 1)..Len(events) :
         /\ events[p].type \in {"file-complete", "error"}
         /\ SegmentStart(p) = q

CompleteIsLast ==
  \A p \in 1..Len(events) : events[p].type = "complete" => p = Len(events)

\* C5 as stated: file-complete is the last event of the iteration of a file
\* processed without error.
C5_FileCompleteIsLast ==
  /\ IterationsComplete
  /\ CompleteIsLast
  /\ \A p \in 1..Len(events) :
       events[p].type = "file-complete" => OrderedUpTo(p) /\ EndsIterationAt(p)

\* C5: for a file processed without error the events are one file-start, one
\* file-info, then row-processed and stats events, then one file-complete,
\* then one closing stats event that carries no current file; the complete
\* event comes once, after the events of all files, and nothing follows it.
C5_EventOrderPerFile ==
  /\ IterationsComplete
  /\ CompleteIsLast
  /\ \A p \in 1..Len(events) :
       events[p].type = "file-complete"
       => /\ OrderedUpTo(p)
          /\ p < Len(events)
          /\ events[p + 1].type = "stats"
          /\ events[p + 1].stats.currentFile = NoFile
          /\ EndsIterationAt(p + 1)

\* a closed stream with two completed files, row-processed events and a
\* periodic stats event in the middle of a file
C5_Witness ==
  /\ pc = "closed"
  /\ EventCount("file-complete") = 2
  /\ EventCount("row-processed") >= 1
  /\ EventCount("complete") = 1
  /\ \E p \in 2..(Len(events) - 1) :
       /\ events[p].type = "stats"
       /\ events[p - 1].type = "file-info"
       /\ events[p + 1].type = "stats"

\* C6: a file whose scan changed no field value causes no upload and no local
\* write, and its file-complete carries newPath = null.
C6_NoOutputWithoutChange ==
  /\ \A k \in 1..Len(io) : io[k].replacements > 0
  /\ \A p \in 1..Len(events) :
       (events[p].type = "file-complete" /\ events[p].replacementsCount = 0)
       => events[p].newPath = NULL

SourcePaths == {req.files[k].path : k \in 1..Len(req.files)}

IsReplaceFlow == req.route \in {"process", "replace"}

\* C7: a replace request writes only to a new file carrying the _replaced
\* suffix, never to the path of a source file, and leaves the content stored
\* at every source path as it was.
C7_SourcesNeverWritten ==
  IsReplaceFlow =>
    /\ \A k \in 1..Len(io) :
         /\ endsWith(io[k].path, s_replaced_csv)
         /\ io[k].path \notin SourcePaths
    /\ \A p \in SourcePaths \cap DOMAIN ServerFiles : store[p] = ServerFiles[p]

\* target is source with its .csv extension, in any letter case, replaced by
\* suffix
IsNewFileOf(target, source, suffix) ==
  \E n \in 0..Len(source) :
    /\ target = SubSeq(source, 1, n) \o suffix
    /\ \/ n = Len(source) /\ ~endsWith(toLowerCase(source), s_dot_csv)
       \/ n + Len(s_dot_csv) = Len(source)
          /\ toLowerCase(SubSeq(source, n + 1, Len(source))) = s_dot_csv

\* the part of a path after its last "/"
BaseName(path) ==
  CHOOSE b \in {SubSeq(path, n, Len(path)) : n \in 1..(Len(path) + 1)} :
    /\ "/" \notin Range(b)
    /\ Len(b) = Len(path) \/ path[Len(path) - Len(b)] = "/"

PersistedCount ==
  Cardinality({p \in 1..Len(events) :
                 events[p].type = "file-complete" /\ events[p].newPath # NULL})

ResolvedCount == Cardinality({k \in 1..Len(io) : io[k].ok})

NormalizedTwice == call.fn = "normalizeToKebabCase" /\ call.runs = 2

KebabChars == Range(LowerLetters) \cup Digits \cup {"_", "-"}

IsKebab(s) ==
  /\ \A i \in 1..Len(s) : s[i] \in KebabChars
  /\ \A i \in 1..(Len(s) - 1) : ~(s[i] = "-" /\ s[i + 1] = "-")
  /\ s # << >> => (s[1] # "-" /\ s[Len(s)] # "-")

\* C11: normalizing an already normalized string returns it unchanged, and
\* every normalized string consists of lowercase letters, digits, underscores
\* and hyphens only, with no two hyphens in a row and no hyphen at either end.
C11_NormalizerIdempotent ==
  /\ (call.fn = "normalizeToKebabCase" /\ call.runs >= 1) => IsKebab(call.outputs[1])
  /\ NormalizedTwice => call.outputs[2] = call.outputs[1]

\* an upper-case letter, whitespace and an accented letter, normalized twice
\* to a-a
C11_Witness ==
  /\ NormalizedTwice
  /\ call.input = <<"A", " ", "U00E3">>
  /\ call.outputs[1] = <<"a", "-", "a">>

(***************************************************************************)
(* Claims about the simple-mode replacement of the process route (checked  *)
(* under Spec).                                                            *)
(***************************************************************************)

IsSimpleReplace ==
  /\ pc # "idle"
  /\ req.route = "process"
  /\ ~useAdvanced(req)
  /\ IsSet(req.replaceTerm)

\* value.replace(regex, replacement) for an escaped (literal) search term
\* with the g flag: every occurrence, left to right, is replaced and the
\* characters between occurrences are kept
RECURSIVE replaceInPlace(_, _, _, _, _)
replaceInPlace(value, i, term, replacement, ignoreCase) ==
  IF i > Len(value) THEN << >>
  ELSE IF term # << >> /\ MatchFrom(term, 1, value, i, ignoreCase, TRUE, FALSE)
    THEN replacement \o replaceInPlace(value, i + Len(term), term, replacement, ignoreCase)
  ELSE <<value[i]>> \o replaceInPlace(value, i + 1, term, replacement, ignoreCase)

MatchEventsOf(k) ==
  IF events[k].type = "row-processed" THEN Range(events[k].matches) ELSE {}

\* C12: in simple mode with a replace term, a field is rewritten only if its
\* own value matches the search regex, and its new value is
\* value.replace(regex, replacement): the parts that did not match are kept.
C12_ReplacesInPlace ==
  (IsSimpleReplace /\ ~req.useRegex /\ ~req.wholeWord)
  => \A k \in 1..Len(events) : \A m \in MatchEventsOf(k) :
       /\ searchRegexTest(req, m.oldValue)
       /\ m.newValue = replaceInPlace(m.oldValue, 1, req.searchTerm,
                                      req.replaceTerm, ~req.caseSensitive)

(***************************************************************************)
(* Claims about errors (checked under Spec).                               *)
(***************************************************************************)

\* the filenames of the events of type t, in order
RECURSIVE NamesOf(_, _)
NamesOf(evs, t) ==
  IF evs = << >> THEN << >>
  ELSE (IF Head(evs).type = t THEN <<Head(evs).filename>> ELSE << >>)
       \o NamesOf(Tail(evs), t)

FileListNames == [k \in 1..Len(fileList) |-> fileList[k].name]

\* a process request whose search term (useRegex) or whose active regex
\* condition is not a valid regular expression
InvalidRegexRequest ==
  /\ req.route = "process"
  /\ requestError(req) = ""
  /\ IF useAdvanced(req)
       THEN \E k \in 1..Len(req.advanced.conditions) :
              /\ IsActiveCond(req.advanced.conditions[k])
              /\ req.advanced.conditions[k].mode = "regex"
              /\ ~RegexCompiles(req.advanced.conditions[k].value)
       ELSE req.useRegex /\ ~RegexCompiles(req.searchTerm)

Closed == pc = "closed"

\* C13: with an invalid regular expression no file ever completes; every file
\* of the request ends with exactly one error event carrying its filename
\* (the parsed ones at pattern evaluation), and the batch ends with the
\* terminal complete event, without any request-level error.
C13_InvalidRegexPerFile ==
  InvalidRegexRequest
  => /\ EventCount("file-complete") = 0
     /\ \A p \in 1..Len(events) : events[p].type = "error" => events[p].filename # NoFile
     /\ Closed => /\ NamesOf(events, "file-start") = FileListNames
                  /\ NamesOf(events, "error") = FileListNames
                  /\ events[Len(events)].type = "complete"

\* two parsed files, both rejected at pattern evaluation, after the batch
\* has ended
C13_Witness ==
  /\ InvalidRegexRequest
  /\ Closed
  /\ FileListNames = <<"a.csv", "b.csv">>
  /\ EventCount("error") = 2
  /\ EventCount("complete") = 1

\* the fields the request replaces in: the operations of the replace route,
\* the legacy single target of an advanced process request
ReplaceTargets ==
  IF req.route = "replace" THEN {opList[k].field : k \in 1..Len(opList)}
  ELSE IF req.route = "process" /\ useAdvanced(req) /\ advancedIsReplaceMode(req)
    THEN {req.replaceTargetField}
  ELSE {}

HeadersOfFile(name) ==
  UNION {Range(headersOf(ServerFiles[fileList[k].path])) :
           k \in {j \in 1..Len(fileList) : fileList[j].name = name}}

LacksTarget(name) == \E t \in ReplaceTargets : t \notin HeadersOfFile(name)

\* C14: a file whose headers lack a replace target is aborted: it sends no
\* row-processed event, no file-complete, writes no output and is not counted
\* in processedFiles.
C14_MissingTargetAbortsFile ==
  /\ \A p \in 1..Len(events) :
       (events[p].type \in {"row-processed", "file-complete"})
       => ~LacksTarget(events[p].filename)
  /\ (\A k \in 1..Len(fileList) : LacksTarget(fileList[k].name))
     => stats.processedFiles = 0 /\ io = << >>

\* the replace route keeps the rule (it holds of every reachable state)
ReplaceRouteAbortsOnMissingTarget == req.route = "replace" => C14_MissingTargetAbortsFile

\* the request has no files (no search results), or is a simple search
\* without a search term, or a replace request without any operation
FatalRequest ==
  \/ req.files = << >>
  \/ /\ req.route = "process"
     /\ req.advanced.conditions = << >>
     /\ ~IsSet(req.searchTerm)
  \/ /\ req.route = "replace"
     /\ req.replaceOperations = << >>
     /\ req.replaceTargetField = ""

\* C15: a request-level error is reported once and ends the request: the
\* only event ever sent is one error event without a filename (so no
\* file-start and no complete), after which the stream is closed.
C15_RequestErrorIsFatal ==
  FatalRequest
  => \/ pc = "request" /\ events = << >>
     \/ /\ Closed
        /\ closeCalls >= 1
        /\ Len(events) = 1
        /\ events[1].type = "error"
        /\ events[1].filename = NoFile

\* a simple search over two files without a search term, after its rejection
C15_Witness ==
  /\ Closed
  /\ req.route = "process"
  /\ req.advanced.conditions = << >>
  /\ ~IsSet(req.searchTerm)
  /\ Len(req.files) = 2
  /\ EventCount("error") = 1

(***************************************************************************)
(* Claims about the counters of ProcessStats (checked under Spec).         *)
(***************************************************************************)

CompletedAt == {p \in 1..Len(events) : events[p].type = "file-complete"}

CompletedWithChange == {p \in CompletedAt : events[p].replacementsCount > 0}

\* the request asks for values to be rewritten
IsReplaceOriented ==
  \/ req.route \in {"replace", "fixSlug"}
  \/ /\ req.route = "process"
     /\ IF useAdvanced(req) THEN advancedIsReplaceMode(req) ELSE IsSet(req.replaceTerm)

\* simple search for foo without a replace term over a.csv (three rows, all
\* matching) and b.csv (no row matching)
IsTwoFileExample ==
  /\ req.route = "process"
  /\ ~useAdvanced(req)
  /\ req.searchTerm = s_foo
  /\ ~IsSet(req.replaceTerm)
  /\ Len(req.files) = 2
  /\ req.files[1].path = PathA
  /\ req.files[2].path = PathB

ExampleStats ==
  (IsTwoFileExample /\ Closed /\ EventCount("complete") = 1 /\ EventCount("error") = 0)
  => /\ stats.totalFiles = 2
     /\ stats.processedFiles = 2
     /\ stats.totalMatches = 3
     /\ stats.totalReplacements = 0
     /\ io = << >>
     /\ \A p \in CompletedAt : events[p].newPath = NULL

\* C16 as stated: every replace-oriented request counts a file in
\* processedFiles iff the file produced a replacement; a pure search counts
\* every file that finishes scanning.
C16_Original ==
  /\ stats.processedFiles =
       IF IsReplaceOriented THEN Cardinality(CompletedWithChange)
       ELSE Cardinality(CompletedAt)
  /\ ExampleStats

\* C16: the replace route and the fix-slug route count a file in
\* processedFiles iff it reaches file-complete with at least one replacement;
\* the process route, searching or replacing, counts every file that reaches
\* file-complete. In the two-file example the final stats are totalFiles=2,
\* processedFiles=2, totalMatches=3, totalReplacements=0 and nothing is
\* written.
C16_ProcessedFilesPerRoute ==
  /\ stats.processedFiles =
       IF req.route \in {"replace", "fixSlug"} THEN Cardinality(CompletedWithChange)
       ELSE Cardinality(CompletedAt)
  /\ ExampleStats

\* the two-file example after its terminal complete event
C16_Witness ==
  /\ IsTwoFileExample
  /\ Closed
  /\ EventCount("file-complete") = 2
  /\ stats.processedFiles = 2
  /\ stats.totalMatches = 3

(***************************************************************************)
(* Claims about the order of the events (checked under Spec).              *)
(***************************************************************************)

\* the position of the first entry of the request that selects rows of path
\* (the replace and fix-slug routes leave out the entries without rows)
FirstAt(path) ==
  CHOOSE k \in 1..Len(req.files) :
    /\ req.files[k].path = path /\ req.files[k].rows # {}
    /\ \A j \in 1..(k - 1) : ~(req.files[j].path = path /\ req.files[j].rows # {})

\* the files of the loop follow the order of the request
LoopFollowsRequest ==
  IF req.route = "process" THEN fileList = << >> \/ fileList = req.files
  ELSE \A j, k \in 1..Len(fileList) :
         j < k => FirstAt(fileList[j].path) < FirstAt(fileList[k].path)

IsPrefix(a, b) == Len(a) <= Len(b) /\ \A k \in 1..Len(a) : a[k] = b[k]

\* an event that belongs to a file
OfAFile(p) == events[p].type # "file-start" /\ events[p].filename # NoFile

\* C17: file-start events follow the order of the files of the request; every
\* event of a file lies in the iteration its own file-start opened, and after
\* the file-complete or error of a file nothing of a file is sent before the
\* next file-start; within one iteration the rowIndex of the row-processed
\* events is strictly increasing.
C17_EventsFollowSubmission ==
  /\ LoopFollowsRequest
  /\ IsPrefix(NamesOf(events, "file-start"), FileListNames)
  /\ \A p \in 1..Len(events) :
       OfAFile(p)
       => /\ \E q \in 1..p : events[q].type = "file-start"
          /\ events[SegmentStart(p)].filename = events[p].filename
          /\ \A j \in SegmentStart(p)..(p - 1) :
               events[j].type \notin {"file-complete", "error"}
  /\ \A p, q \in 1..Len(events) :
       (/\ p < q
        /\ events[p].type = "row-processed"
        /\ events[q].type = "row-processed"
        /\ SegmentStart(p) = SegmentStart(q))
       => events[p].rowIndex < events[q].rowIndex

\* a.csv then b.csv, the third row of a.csv reported after its first two,
\* after the batch has ended
C17_Witness ==
  /\ Closed
  /\ NamesOf(events, "file-start") = <<"a.csv", "b.csv">>
  /\ \E p, q \in 1..Len(events) :
       /\ p < q
       /\ events[p].type = "row-processed" /\ events[p].rowIndex = 1
       /\ events[q].type = "row-processed" /\ events[q].rowIndex = 3
       /\ events[q].filename = "a.csv"
  /\ EventCount("file-complete") = 2

(***************************************************************************)
(* Claims about the Field Matcher (checked under SpecEval).                *)
(***************************************************************************)

\* the case both sides of a comparison are brought to
Folded(s) == IF call.advanced.caseSensitive THEN s ELSE toLowerCase(s)

\* condition k compared with the row's value under the flag of the call
ComparedUnderFlag(k) ==
  LET v == Folded(CallConds[k].value)
      c == Folded(call.row[CallConds[k].field])
  IN  CASE CallConds[k].mode = "equals"     -> c = v
        [] CallConds[k].mode = "startsWith" -> startsWith(c, v)
        [] CallConds[k].mode = "endsWith"   -> endsWith(c, v)
        [] OTHER                            -> includes(c, v)

NonRegexCall ==
  /\ EvalDone
  /\ CallConds # << >>
  /\ NonBlankIdx(CallConds) = 1..Len(CallConds)
  /\ \A k \in 1..Len(CallConds) : CallConds[k].mode # "regex" /\ FieldExists(k)

\* C18: with caseSensitive unset every contains / equals / startsWith /
\* endsWith condition compares the lowercased condition value with the
\* lowercased cell value, with caseSensitive set it compares them as they
\* are; the one flag of the set governs every condition of the set.
C18_CaseSensitivity ==
  NonRegexCall
  => /\ ~call.result.threw
     /\ call.result.matches
          <=> IF CallLogicIsAnd
                THEN \A k \in 1..Len(CallConds) : ComparedUnderFlag(k)
                ELSE \E k \in 1..Len(CallConds) : ComparedUnderFlag(k)

\* a case-insensitive AND of two conditions that each match only after
\* lowercasing: the value X against the cell x, the value x against the cell X
C18_Witness ==
  /\ NonRegexCall
  /\ ~call.advanced.caseSensitive
  /\ call.advanced.logic = "AND"
  /\ CallConds = <<Cond("A", "contains", <<"X">>), Cond("B", "startsWith", <<"x">>)>>
  /\ call.row["A"] = <<"x">>
  /\ call.row["B"] = <<"X">>
  /\ call.result.matches

\* the same conditions and row compared case-sensitively do not match
C18_ExactWitness ==
  /\ NonRegexCall
  /\ call.advanced.caseSensitive
  /\ CallConds = <<Cond("A", "contains", <<"X">>)>>
  /\ call.row["A"] = <<"x">>
  /\ ~call.result.matches

(***************************************************************************)
(* Claims about totalMatches and totalReplacements (checked under Spec).   *)
(***************************************************************************)

\* the row predicate of the process request
RowMatchesRequest(row, headers) ==
  IF useAdvanced(req) THEN rowMatchesAdvanced(row, headers, req.advanced).matches
  ELSE searchRegexTest(req, rowText(row, headers, 1))

MatchedRows(content, upTo) ==
  Cardinality({i \in 1..upTo :
                 RowMatchesRequest(content.rows[i], headersOf(content))})

DistinctPaths ==
  \A j, k \in 1..Len(fileList) : j # k => fileList[j].path # fileList[k].path

ContentOf(name) ==
  ServerFiles[(CHOOSE f \in Range(fileList) : f.name = name).path]

\* the file-info at p opened the scan that is still running
ScanOpenAt(p) ==
  /\ pc = "scan"
  /\ \A j \in (p + 1)..Len(events) : events[j].type # "file-info"

\* the matched rows among the rows scanned so far, over the file-info events
\* up to position p
RECURSIVE MatchedRowsUpTo(_)
MatchedRowsUpTo(p) ==
  IF p = 0 THEN 0
  ELSE MatchedRowsUpTo(p - 1)
       + (IF events[p].type = "file-info"
            THEN MatchedRows(ContentOf(events[p].filename),
                             IF ScanOpenAt(p) THEN cur.i
                             ELSE Len(ContentOf(events[p].filename).rows))
            ELSE 0)

\* C19: in the process route totalMatches is the number of matched rows
\* scanned so far, one per row however many of its fields matched, and the
\* matchesCount of a file-complete is the number of matched rows of its file;
\* so it is at the terminal complete event.
C19_TotalMatchesCountsRows ==
  (req.route = "process" /\ DistinctPaths)
  => /\ stats.totalMatches = MatchedRowsUpTo(Len(events))
     /\ \A p \in 1..Len(events) :
          events[p].type = "file-complete"
          => events[p].matchesCount =
               MatchedRows(ContentOf(events[p].filename),
                           Len(ContentOf(events[p].filename).rows))

\* a search for rome over a.csv has ended: two rows matched, one of them in
\* two fields
C19_Witness ==
  /\ req.route = "process"
  /\ Closed
  /\ EventCount("complete") = 1
  /\ Len(fileList) = 1
  /\ stats.totalMatches = 2
  /\ \E p \in 1..Len(events) :
       events[p].type = "row-processed" /\ Len(events[p].matches) = 2

ChangedIn(matches) ==
  Cardinality({k \in 1..Len(matches) : matches[k].newValue # matches[k].oldValue})

\* the MatchEvents with a new value different from the old one, over the
\* events up to position p
RECURSIVE ChangedUpTo(_)
ChangedUpTo(p) ==
  IF p = 0 THEN 0
  ELSE ChangedUpTo(p - 1)
       + (IF events[p].type = "row-processed" THEN ChangedIn(events[p].matches) ELSE 0)

\* C20: at every point of a run totalReplacements is the number of
\* MatchEvents sent so far whose newValue differs from their oldValue: one
\* per rewritten (row, field), none for a value that stays as it is.
C20_TotalReplacementsCountsChanges ==
  pc # "idle" => stats.totalReplacements = ChangedUpTo(Len(events))

\* a replace request with two operations over b.csv has ended: the first
\* operation wrote the value the field already had, the second changed state
C20_Witness ==
  /\ req.route = "replace"
  /\ Closed
  /\ Len(opList) = 2
  /\ stats.totalReplacements = 1
  /\ \E p \in 1..Len(events) :
       /\ events[p].type = "row-processed"
       /\ Len(events[p].matches) = 1
       /\ events[p].matches[1].field = "state"
       /\ events[p].matches[1].newValue = s_bar

(***************************************************************************)
(* Claims about the reporting of the derived slug_url (checked under       *)
(* SpecSlug).                                                              *)
(***************************************************************************)

\* the operations, applied in order from the k-th on, that write a value
\* different from the one the field holds at that moment
RECURSIVE OpChangesFrom(_, _, _)
OpChangesFrom(row, ops, k) ==
  IF k > Len(ops) THEN 0
  ELSE IF row[ops[k].field] # ops[k].value
    THEN 1 + OpChangesFrom([row EXCEPT ![ops[k].field] = ops[k].value], ops, k + 1)
  ELSE OpChangesFrom(row, ops, k + 1)

\* changing location made the derived rule rewrite slug_url
DerivedSlugChanged ==
  /\ HasSlugUrl
  /\ LocationChanged
  /\ call.result.row["slug_url"] # SlugAfterOps

LastEvent == call.result.events[Len(call.result.events)]

\* C21: when changing location makes slug_url change, the row's events end
\* with a slug_url MatchEvent that follows the location MatchEvent, and the
\* row counts one replacement more than the operations that changed a field;
\* when the recomputed slug_url is the current one, the row reports and counts
\* the changed operation fields only.
C21_DerivedSlugReported ==
  (ReplaceDone /\ call.selected)
  => /\ Len(call.result.events) = call.result.count
     /\ IF DerivedSlugChanged
          THEN /\ call.result.count
                    = OpChangesFrom(call.row, call.operations, 1) + 1
               /\ LastEvent.field = "slug_url"
               /\ LastEvent.newValue = call.result.row["slug_url"]
               /\ LastEvent.newValue # LastEvent.oldValue
               /\ \E k \in 1..(Len(call.result.events) - 1) :
                    call.result.events[k].field = "location"
          ELSE call.result.count = OpChangesFrom(call.row, call.operations, 1)

\* location and title replaced on a row whose slug_url ends with -salary:
\* three replacements, the last one the derived slug_url
C21_Witness ==
  /\ ReplaceDone /\ call.selected /\ DerivedSlugChanged
  /\ Len(call.operations) = 2
  /\ call.result.count = 3
  /\ LastEvent.field = "slug_url"

\* location replaced by the value whose slug the slug_url already carries:
\* one replacement, no slug_url event
C21_UnchangedWitness ==
  /\ ReplaceDone /\ call.selected /\ HasSlugUrl /\ LocationChanged
  /\ ~DerivedSlugChanged
  /\ includes(call.row["slug_url"], SALARY)
  /\ call.result.count = 1

(***************************************************************************)
(* Claims about the match decision of the simple mode (checked under       *)
(* Spec).                                                                  *)
(***************************************************************************)

SimpleSearch ==
  /\ req.route = "process"
  /\ ~useAdvanced(req)
  /\ requestError(req) = ""
  /\ ~searchRegexThrows(req)
  /\ DistinctPaths

\* the rows of a file whose joined text the search regex matches
TextMatchedRows(content) ==
  {i \in 1..Len(content.rows) :
     searchRegexTest(req, rowText(content.rows[i], headersOf(content), 1))}

\* the fields of a row whose own value the search regex matches
FieldsMatching(content, i) ==
  {f \in Range(headersOf(content)) : searchRegexTest(req, Cell(content.rows[i], f))}

EventFields(p) == {events[p].matches[k].field : k \in 1..Len(events[p].matches)}

\* the term that spans location and state of the first two rows of a.csv
IsSpanningSearch ==
  /\ SimpleSearch
  /\ req.searchTerm = s_Rome \o <<" ">> \o s_foo

StatsAt == {p \in 1..Len(events) : events[p].type \in {"stats", "complete"}}

NeverLess(a, b) ==
  /\ a.totalRows <= b.totalRows
  /\ a.processedRows <= b.processedRows
  /\ a.totalMatches <= b.totalMatches
  /\ a.totalReplacements <= b.totalReplacements
  /\ a.processedFiles <= b.processedFiles
  /\ a.totalFiles = b.totalFiles

StartReplaceDone == call.fn = "startReplace" /\ call.done

ActiveConds == activeReplaceConditions(call.replaceConditions)

\* the literal "empty" in any letter case, surrounding whitespace ignored
IsEmptyLiteral(v) ==
  /\ Len(trim(v)) = 5
  /\ \A i \in 1..5 :
       LowerChar(trim(v)[i]) = <<"e", "m", "p", "t", "y">>[i]

\* the last condition on the field of condition k is condition k itself
LastOnField(k) ==
  \A j \in (k + 1)..Len(ActiveConds) : ActiveConds[j].field # ActiveConds[k].field

\* C24: a replace condition whose value is the literal "empty" (any letter
\* case, surrounding whitespace ignored) is sent as an operation with the
\* empty string, and the selected row's field ends up empty, not holding the
\* text "empty"; any other value is sent and written as typed.
C24_EmptyLiteralClears ==
  StartReplaceDone
  => \A k \in 1..Len(ActiveConds) :
       /\ call.operations[k].field = ActiveConds[k].field
       /\ call.operations[k].value
            = IF IsEmptyLiteral(ActiveConds[k].value) THEN << >>
              ELSE ActiveConds[k].value
       /\ (call.selected /\ LastOnField(k))
          => call.result.row[ActiveConds[k].field] = call.operations[k].value

\* " Empty " typed for location on a selected row in Rome: the location is
\* cleared and reported as a replacement by the empty string
C24_Witness ==
  /\ StartReplaceDone
  /\ call.selected
  /\ call.replaceConditions = <<[field |-> "location", value |-> <<" ", "E", "m", "p", "t", "y", " ">>]>>
  /\ call.row["location"] = <<"R", "o", "m", "e">>
  /\ call.result.row["location"] = << >>
  /\ call.result.events[1] = MatchEvent("location", <<"R", "o", "m", "e">>, << >>)

(***************************************************************************)
(* Claims about the rows of a persisted output (checked under Spec).       *)
(***************************************************************************)

\* the fields a request may rewrite in a file with the given headers
TargetFields(headers) ==
  IF req.route = "replace" THEN {opList[k].field : k \in 1..Len(opList)} \cup {"slug_url"}
  ELSE IF req.route = "fixSlug" THEN {"slug_url"}
  ELSE IF useAdvanced(req) THEN {req.replaceTargetField}
  ELSE Range(replaceFieldsOf(req, headers))

\* what the k-th write left at its destination
WrittenBy(k) ==
  IF io[k].op = "writeFile" THEN localFiles[io[k].path] ELSE store[io[k].path]

\* the written rows are the source rows, in number and order, up to the
\* values of the target fields
SameRowsUpToTargets(written, source) ==
  /\ Len(written.rows) = Len(source.rows)
  /\ \A i \in 1..Len(written.rows) :
       /\ DOMAIN written.rows[i] = DOMAIN source.rows[i]
       /\ \A f \in DOMAIN source.rows[i] :
            f \notin TargetFields(headersOf(source))
            => written.rows[i][f] = source.rows[i][f]

\* C25: every output a route has persisted holds exactly the rows of its
\* source file, same number and same order, differing only in the values of
\* the fields that were replaced, whatever showOnlyMatches and saveMode are.
C25_PersistedRowsPreserved ==
  DistinctPaths
  => \A k \in 1..Len(io) :
       io[k].ok => SameRowsUpToTargets(WrittenBy(k), ServerFiles[io[k].source])

\* the replace route and the fix-slug route keep every row
RowsPreservedOutsideProcess == req.route # "process" => C25_PersistedRowsPreserved

(***************************************************************************)
(* Claims about the closing of the response stream (checked under Spec).   *)
(***************************************************************************)

\* C26: controller.close() is invoked exactly once on every path of a
\* handler, never on a stream that is already closed.
C26_ClosedExactlyOnce ==
  /\ closeCalls <= 1
  /\ Closed => closeCalls = 1

\* the paths that reach the end of the file loop close once
ClosedOnceAfterLoop == EventCount("complete") = 1 => closeCalls = 1

(***************************************************************************)
(* Claims about the outcome of a started file (checked under Spec).        *)
(***************************************************************************)

FileStartsAt == {q \in 1..Len(events) : events[q].type = "file-start"}

\* the file-complete and error events of the iteration opened at q
OutcomesOf(q) ==
  {p \in (q + 1)..Len(events) :
     /\ events[p].type \in {"file-complete", "error"}
     /\ SegmentStart(p) = q}

\* the iteration opened at q is over: another file-start or the terminal
\* complete has been sent since
IterationOver(q) ==
  \E j \in (q + 1)..Len(events) : events[j].type \in {"file-start", "complete"}

\* C27: every file-start is followed, before the next file-start or the
\* terminal complete, by exactly one event that is either the file-complete
\* or the error of that file; processedFiles counts only files that ended
\* with file-complete.
C27_OneOutcomePerFile ==
  /\ \A q \in FileStartsAt :
       /\ Cardinality(OutcomesOf(q)) <= 1
       /\ IterationOver(q) => Cardinality(OutcomesOf(q)) = 1
       /\ \A p \in OutcomesOf(q) : events[p].filename = events[q].filename
  /\ stats.processedFiles <= EventCount("file-complete")
  /\ Closed /\ requestError(req) = ""
     => EventCount("file-complete") + EventCount("error") = Len(fileList)

\* two files, the first ended with an error and the second with
\* file-complete, after the batch has ended
C27_Witness ==
  /\ Closed
  /\ Cardinality(FileStartsAt) = 2
  /\ \E p, q \in 1..Len(events) :
       /\ p < q
       /\ events[p].type = "error"
       /\ events[q].type = "file-complete"
  /\ stats.processedFiles = 1

(***************************************************************************)
(* Claims about the frame of the replace route (checked under Spec).       *)
(***************************************************************************)

\* the row indices the search results of the request select in a path
SelectedRows(path) ==
  UNION {req.files[k].rows : k \in {j \in 1..Len(req.files) : req.files[j].path = path}}

\* the paths the search results select at least one row of
SelectedPaths == {q \in DOMAIN ServerFiles : SelectedRows(q) # {}}

OperationFields == {opList[k].field : k \in 1..Len(opList)} \cup {"slug_url"}

\* written differs from source only in operation fields (and slug_url) of
\* selected rows
WithinFrame(written, source, selected) ==
  /\ Len(written.rows) = Len(source.rows)
  /\ \A i \in 1..Len(source.rows) :
       IF i \in selected
         THEN \A f \in DOMAIN source.rows[i] :
                f \notin OperationFields => written.rows[i][f] = source.rows[i][f]
         ELSE written.rows[i] = source.rows[i]

\* C28: the replace route changes only the operation fields and slug_url of
\* the rows its search results select; every other row and field is written
\* back as it was, and a file the search results select no row of is neither
\* started nor written nor changed.
C28_ReplaceFrame ==
  req.route = "replace"
  => /\ \A k \in 1..Len(io) :
          /\ io[k].source \in SelectedPaths
          /\ (io[k].ok /\ DistinctPaths)
             => WithinFrame(WrittenBy(k), ServerFiles[io[k].source],
                            SelectedRows(io[k].source))
     /\ \A k \in 1..Len(fileList) : fileList[k].path \in SelectedPaths
     /\ IsPrefix(NamesOf(events, "file-start"), FileListNames)
     /\ \A q \in DOMAIN ServerFiles \ SelectedPaths : store[q] = ServerFiles[q]

\* location replaced by Oslo in the second row of a.csv only: the written
\* file has the first row as it was and the second in Oslo, with its slug_url
\* recomputed
C28_Witness ==
  /\ req.route = "replace"
  /\ Len(req.files) = 1
  /\ SelectedRows(PathA) = {2}
  /\ Len(io) = 1 /\ io[1].ok
  /\ WrittenBy(1).rows[1] = ServerFiles[PathA].rows[1]
  /\ WrittenBy(1).rows[2]["location"] = s_Oslo
  /\ WrittenBy(1).rows[2]["slug_url"] # ServerFiles[PathA].rows[2]["slug_url"]
  /\ WrittenBy(1).rows[2]["state"] = s_foo

(***************************************************************************)
(* Claims about reported and persisted replacements (checked under Spec).  *)
(***************************************************************************)

\* the sum of replacementsCount over the file-complete events up to p
RECURSIVE CompletedReplacementsUpTo(_)
CompletedReplacementsUpTo(p) ==
  IF p = 0 THEN 0
  ELSE CompletedReplacementsUpTo(p - 1)
       + (IF events[p].type = "file-complete" THEN events[p].replacementsCount ELSE 0)

AfterComplete == Closed /\ EventCount("complete") = 1

\* C29: at the terminal complete event of the replace and fix-slug routes
\* totalReplacements is the sum of replacementsCount over the file-complete
\* events of the run, also when a write failed for some file.
C29_ReportedArePersisted ==
  (AfterComplete /\ req.route \in {"replace", "fixSlug"})
  => stats.totalReplacements = CompletedReplacementsUpTo(Len(events))

\* the two agree in the runs in which no write was rejected
ReportedArePersistedWithoutFailure ==
  (AfterComplete /\ req.route \in {"replace", "fixSlug"}
     /\ \A k \in 1..Len(io) : io[k].ok)
  => stats.totalReplacements = CompletedReplacementsUpTo(Len(events))

(***************************************************************************)
(* Claims about the CSVProcessorPanel (checked under SpecPanel).           *)
(***************************************************************************)
\* the operations whose stream has not yet delivered its terminal complete
\* event or ended
Streaming ==
  {s \in 1..Len(call.streams) :
     \E k \in 1..Len(call.streams[s].left) :
       call.streams[s].left[k].type = "complete"}

\* C30: client operations do not overlap: from the start of a search,
\* replace or fix-slug operation until its stream delivers the terminal
\* complete event or ends, isProcessing stays true, also after a per-file
\* error event, so that no second operation starts while a batch is still
\* streaming.
C30_OperationsDoNotOverlap ==
  call.fn = "panel" =>
    /\ Streaming # {} => call.isProcessing
    /\ Cardinality(Streaming) <= 1

\* what the guards of the buttons and of the auto-trigger effect do
\* ensure: an operation starts only while isProcessing is false
StartsOnlyWhenIdle ==
  [][(call.fn = "panel" /\ Len(call'.streams) > Len(call.streams))
       => ~call.isProcessing]_vars

====
